---------------------------- MODULE Spec2Model ----------------------------
(***************************************************************************)
(* Crawl core of leobrain-backend: the storage pipeline                    *)
(* (crawlers/core/pipelines.py), the httpx fetcher with robots.txt and     *)
(* retry/backoff (crawlers/core/fetcher.py) and the engine's frontier loop *)
(* (crawlers/core/engine.py).                                              *)
(***************************************************************************)
EXTENDS Integers, Sequences, FiniteSets, TLC

(***************************************************************************)
(* Bounds of the model.                                                    *)
(***************************************************************************)
NumUrls == 2
MaxItems == 3
BatchLen == 5
MaxRetries == 3
MaxRequests == 3

(***************************************************************************)
(* Storage pipeline: StoragePipeline.process_items / process_item.         *)
(* Two pipelines write to one metadata store (table "contents") and one    *)
(* blob store.  process_item has no await in it; pipelines interleave at   *)
(* the granularity of store accesses (select, put_object, commit,          *)
(* refresh) when they run in different workers.  The list handed to        *)
(* process_items is given by its length; the item at each position is      *)
(* drawn when the for loop reaches it.                                     *)
(***************************************************************************)
Pipelines == {"p1", "p2"}
Urls == 1..NumUrls
UrlSpace == 1..(NumUrls + BatchLen)
NoItem == [url |-> 0, source |-> "none"]
NoContent == [url |-> 0]
Tags == {"skip", "stored", "select_failed", "upload_failed", "insert_rejected",
         "insert_failed", "refresh_failed"}
\* what the history keeps of an outcome: a skip, a success, an insert the
\* uniqueness constraint rejected, another failure of the blob upload or of
\* the insert, or a failure of another step
Kinds == {"skip", "stored", "rejected", "store_failed", "other_failed"}
KindOf(tag) ==
    CASE tag \in {"skip", "stored"} -> tag
      [] tag = "insert_rejected" -> "rejected"
      [] tag \in {"upload_failed", "insert_failed"} -> "store_failed"
      [] OTHER -> "other_failed"

VARIABLES
    contents,       \* metadata store: set of committed Content rows
    blobs,          \* blob store: set of object names
    ppc,            \* per pipeline: position in process_items/process_item
    len_items,      \* per pipeline: len(items) of the current process_items call
    idx,            \* per pipeline: position of the for loop (1-based)
    item,           \* per pipeline: the item process_item is working on
    success_count,  \* per pipeline: process_items' success_count
    session,        \* per pipeline: the Content row added to the session, not yet committed
    submitted,      \* history: number of items handed to process_items so far
    tally,          \* history: per pipeline, outcomes of the current call by kind
    first_fail,     \* history: per pipeline, position of the first failed item
    pcommits,       \* history: rows committed during the current call
    ok_count        \* history: per url, number of process_item calls that returned True

pipeVars == <<contents, blobs, ppc, len_items, idx, item, success_count,
              session, submitted, tally, first_fail, pcommits, ok_count>>

(***************************************************************************)
(* Fetcher state: HttpxFetcher (one instance) and the fetch call it runs.  *)
(***************************************************************************)
VARIABLES
    max_retries,    \* HttpxFetcher.max_retries
    respect_rebots, \* HttpxFetcher.respect_rebots
    robot_parsers,  \* HttpxFetcher.robot_parsers: domain -> RobotFileParser
    fpc,            \* position of the fetch call
    freq,           \* the Request being fetched
    attempt,        \* the for loop's attempt
    fresult,        \* what fetch returned: "response" or "null"
    exchanges,      \* history: client.request exchanges of the current call
    sleeps,         \* history: asyncio.sleep durations of the current call
    seen,           \* history: outcomes the attempts of the current call met
    blocked,        \* history: the current call returned at the robots check
    robots_loads,   \* history: per domain, number of rp.read() calls
    load_failed     \* history: per domain, rp.read() raised

fetchVars == <<max_retries, respect_rebots, robot_parsers, fpc, freq, attempt,
               fresult, exchanges, sleeps, seen, blocked, robots_loads, load_failed>>

(***************************************************************************)
(* Engine state: one CrawlerEngine and the crawl_spider call it runs.      *)
(***************************************************************************)
VARIABLES
    epc,            \* position of crawl_spider
    renderer,       \* CrawlerEngine.renderer: "noop" or "playwright"
    anti_bot,       \* CrawlerEngine.anti_bot is set
    requests,       \* the frontier: crawl_spider's requests list
    req,            \* the request popped from the frontier
    all_items,      \* crawl_spider's all_items (an item is its url)
    returned,       \* what crawl_spider returned (-1: nothing yet)
    next_id,        \* history: requests are numbered as the spider creates them
    n_seeds,        \* history: number of requests seeds() returned
    dispatched,     \* history: requests handed to the fetcher or renderer, in order
    executor,       \* history: who runs the request in flight
    parse_log,      \* history: what each parse call returned, in order
    nulls,          \* history: dispatches that returned None
    handoffs        \* history: number of pipeline.process_items calls of the run

engineVars == <<epc, renderer, anti_bot, requests, req, all_items, returned,
                next_id, n_seeds, dispatched, executor, parse_log, nulls, handoffs>>

(***************************************************************************)
(* Time a fetch call takes: HttpxFetcher.timeout and the waits of the call *)
(* (seconds).                                                              *)
(***************************************************************************)
VARIABLES
    timeout,        \* HttpxFetcher.timeout
    suspended       \* history: seconds the current fetch call kept its caller waiting

clockVars == <<timeout, suspended>>

(***************************************************************************)
(* crawl_site (crawlers/core/service.py): one call.                        *)
(***************************************************************************)
VARIABLES
    spc,            \* position of crawl_site
    config,         \* the config dict crawl_site was called with
    spider,         \* the spider crawl_site built: "none" or "rss"
    engine_made,    \* CrawlerEngine() was constructed
    engine_closed,  \* engine.close() was awaited
    result,         \* crawl_site's local result (-1: not assigned)
    site_value,     \* the value crawl_site returned to its caller
    site_error,     \* the exception crawl_site raised to its caller
    closed_calls    \* history: calls of spider.closed()

siteVars == <<spc, config, spider, engine_made, engine_closed, result,
              site_value, site_error, closed_calls>>

(***************************************************************************)
(* AntiBotMiddleware (crawlers/core/anti_bot.py): one instance and the     *)
(* before_request calls of one caller.  Time is counted in ticks.          *)
(***************************************************************************)
VARIABLES
    bot_qps,        \* AntiBotMiddleware.qps, in half requests per second (0: None)
    bot_delay,      \* AntiBotMiddleware.delay, in ticks
    bot_jitter,     \* AntiBotMiddleware.jitter
    level,          \* AsyncLimiter._level, in units of 1/(2*TicksPerSec) token
    last_check,     \* AsyncLimiter._last_check
    now,            \* the event loop's clock
    bpc,            \* position of the before_request call
    calls,          \* history: before_request calls that returned
    last_done,      \* history: when the latest call returned
    gap             \* history: time between the latest two returns (-1: none yet)

botVars == <<bot_qps, bot_delay, bot_jitter, level, last_check, now, bpc, calls,
             last_done, gap>>

(***************************************************************************)
(* RSSSpider.parse (crawlers/core/spiders/rss_spider.py): one call.        *)
(***************************************************************************)
VARIABLES
    rpc,            \* position of the parse call
    max_items,      \* RSSSpider.max_items (0: None)
    fetch_full_content, \* RSSSpider.fetch_full_content
    feed_entries,   \* feed.entries: what extracting each entry meets
    entry,          \* position of the for loop over entries (1-based)
    items,          \* parse's items: the positions of the entries extracted
    new_reqs,       \* parse's new_requests: the follow-up Requests
    entry_errors    \* history: positions of the entries whose extraction raised

feedVars == <<rpc, max_items, fetch_full_content, feed_entries, entry, items,
              new_reqs, entry_errors>>

(***************************************************************************)
(* What the runs of the later sections keep beside the engine's state.     *)
(***************************************************************************)
VARIABLES
    url_of,         \* history: the url of each request of the run, by its number
    run_no,         \* history: how many crawl_spider calls the engine has had
    run_throttled,  \* history: the config of the current call has qps or delay
    browser,        \* PlaywrightRenderer.browser is set
    render_pc,      \* how the render call of the request in flight ended
    net_hits,       \* history: page loads and exchanges, <<executor, url is disallowed>>
    heap,           \* the objects the crawl_site calls construct, by identity
    next_obj,       \* the identity the next constructed object gets
    storage_service,\* common.storage._storage_service (0: None)
    run             \* per crawl_site call: its position and the objects it holds

histVars == <<url_of, run_no, run_throttled>>
renderVars == <<browser, render_pc, net_hits>>
concVars == <<heap, next_obj, storage_service, run>>
moreVars == <<histVars, renderVars, concVars>>

laterVars == <<clockVars, siteVars, botVars, feedVars, moreVars>>

vars == <<pipeVars, fetchVars, engineVars, laterVars>>

\* the source name a pipeline's crawl run stamps on its items (Item.source):
\* the site's source_name, any str; the second site's is the empty one
SourceOf(p) == IF p = "p1" THEN "feedA" ELSE ""

\* (mutant) the existence check never finds a row
ExistingNever(url) == FALSE

\* select(Content).where(Content.url == item.url) ... .first()
Existing(url) == \E r \in contents : r.url = url

\* StorageService.upload_content: f"{source}/{content_uuid}.txt" if source
\* else f"content/{content_uuid}.txt"
ObjectName(source, uuid) ==
    IF source # "" THEN <<source, uuid, "txt">> ELSE <<"content", uuid, "txt">>

\* uuid.uuid4(): a value no earlier call produced.  A value whose upload
\* failed is stored nowhere, so the supply is counted by the stored blobs.
Uuid4 == Cardinality(blobs) + 1

\* Content(source=..., url=..., body_ref=object_name, content_uuid=content_uuid)
NewContent(it, uuid) ==
    [url |-> it.url, source |-> it.source, content_uuid |-> uuid,
     body_ref |-> ObjectName(it.source, uuid)]

\* (mutant) the table has no unique index
NoUniqueIndex(rec) == FALSE

\* ContentBase: url unique=True, content_uuid unique=True
UniqueViolation(rec) ==
    \E r \in contents : r.url = rec.url \/ r.content_uuid = rec.content_uuid

IsFailure(tag) == tag \notin {"skip", "stored"}

\* process_item returns ok; process_items counts it and moves to the next item
ItemReturn(p, ok, tag) ==
    /\ success_count' = [success_count EXCEPT ![p] = IF ok THEN @ + 1 ELSE @]
    /\ idx' = [idx EXCEPT ![p] = @ + 1]
    /\ ppc' = [ppc EXCEPT ![p] = IF idx[p] < len_items[p] THEN "select" ELSE "done"]
    /\ item' = [item EXCEPT ![p] = NoItem]
    /\ tally' = [tally EXCEPT ![p][KindOf(tag)] = @ + 1]
    /\ first_fail' = [first_fail EXCEPT ![p] =
                         IF @ = 0 /\ IsFailure(tag) THEN idx[p] ELSE @]
    /\ ok_count' = IF ok THEN [ok_count EXCEPT ![item[p].url] = @ + 1] ELSE ok_count

\* (mutant) the exception leaves process_item and ends the for loop
OnExceptionBreak(p, tag) ==
    /\ session' = [session EXCEPT ![p] = NoContent]
    /\ ppc' = [ppc EXCEPT ![p] = "done"]
    /\ idx' = idx
    /\ item' = [item EXCEPT ![p] = NoItem]
    /\ tally' = [tally EXCEPT ![p][KindOf(tag)] = @ + 1]
    /\ first_fail' = [first_fail EXCEPT ![p] = IF @ = 0 THEN idx[p] ELSE @]
    /\ UNCHANGED <<success_count, ok_count>>

\* except Exception: session.rollback(); log; return False
OnException(p, tag) ==
    /\ session' = [session EXCEPT ![p] = NoContent]
    /\ ItemReturn(p, FALSE, tag)

\* process_items(items): success_count = 0; for item in items: ...
ProcessItems(p, n) ==
    /\ ppc[p] \in {"idle", "done"}
    /\ submitted' = submitted + n
    /\ len_items' = [len_items EXCEPT ![p] = n]
    /\ idx' = [idx EXCEPT ![p] = 1]
    /\ success_count' = [success_count EXCEPT ![p] = 0]
    /\ ppc' = [ppc EXCEPT ![p] = IF n = 0 THEN "done" ELSE "select"]
    /\ tally' = [tally EXCEPT ![p] = [t \in Kinds |-> 0]]
    /\ first_fail' = [first_fail EXCEPT ![p] = 0]
    /\ pcommits' = [pcommits EXCEPT ![p] = 0]
    /\ UNCHANGED <<contents, blobs, item, session, ok_count>>

\* (mutant) a row found for the url is deleted and the item stored anew
SelectThenReplace(p, u) ==
    /\ ppc[p] = "select"
    /\ contents' = {r \in contents : r.url # u}
    /\ ppc' = [ppc EXCEPT ![p] = "upload"]
    /\ item' = [item EXCEPT ![p] = [url |-> u, source |-> SourceOf(p)]]
    /\ UNCHANGED <<idx, success_count, tally, first_fail, ok_count, session>>
    /\ UNCHANGED <<blobs, len_items, submitted, pcommits>>

\* the existence check on items[idx], whose url is u; a hit returns False
\* from inside the try
SelectExisting(p, u) ==
    /\ ppc[p] = "select"
    /\ IF Existing(u)
       THEN /\ ItemReturn(p, FALSE, "skip")
            /\ UNCHANGED session
       ELSE /\ ppc' = [ppc EXCEPT ![p] = "upload"]
            /\ item' = [item EXCEPT ![p] = [url |-> u, source |-> SourceOf(p)]]
            /\ UNCHANGED <<idx, success_count, tally, first_fail, ok_count, session>>
    /\ UNCHANGED <<contents, blobs, len_items, submitted, pcommits>>

\* the select raises (metadata store unavailable)
SelectFails(p) ==
    /\ ppc[p] = "select"
    /\ OnException(p, "select_failed")
    /\ UNCHANGED <<contents, blobs, len_items, submitted, pcommits>>

\* (mutant) the row is built and added without the blob being put
UploadSkipped(p) ==
    /\ ppc[p] = "upload"
    /\ blobs' = blobs
    /\ session' = [session EXCEPT ![p] = NewContent(item[p], Uuid4)]
    /\ ppc' = [ppc EXCEPT ![p] = "commit"]
    /\ UNCHANGED <<contents, len_items, idx, item, success_count, submitted,
                   tally, first_fail, pcommits, ok_count>>

\* content_uuid = str(uuid.uuid4()); object_name = storage.upload_content(...);
\* content = Content(...); session.add(content)
Upload(p) ==
    /\ ppc[p] = "upload"
    /\ blobs' = blobs \cup {ObjectName(item[p].source, Uuid4)}
    /\ session' = [session EXCEPT ![p] = NewContent(item[p], Uuid4)]
    /\ ppc' = [ppc EXCEPT ![p] = "commit"]
    /\ UNCHANGED <<contents, len_items, idx, item, success_count, submitted,
                   tally, first_fail, pcommits, ok_count>>

\* put_object raises S3Error; upload_content logs and re-raises
UploadFails(p) ==
    /\ ppc[p] = "upload"
    /\ OnException(p, "upload_failed")
    /\ UNCHANGED <<contents, blobs, len_items, submitted, pcommits>>

\* (mutant) a rejected insert deletes the blob it uploaded
CommitCompensates(p) ==
    /\ ppc[p] = "commit"
    /\ IF UniqueViolation(session[p])
       THEN /\ OnException(p, "insert_rejected")
            /\ blobs' = blobs \ {session[p].body_ref}
            /\ UNCHANGED <<contents, pcommits>>
       ELSE /\ contents' = contents \cup {session[p]}
            /\ session' = [session EXCEPT ![p] = NoContent]
            /\ pcommits' = [pcommits EXCEPT ![p] = @ + 1]
            /\ ppc' = [ppc EXCEPT ![p] = "refresh"]
            /\ blobs' = blobs
            /\ UNCHANGED <<idx, item, success_count, tally, first_fail, ok_count>>
    /\ UNCHANGED <<len_items, submitted>>

\* session.commit(): the store takes the row unless a unique index rejects it
Commit(p) ==
    /\ ppc[p] = "commit"
    /\ IF UniqueViolation(session[p])
       THEN /\ OnException(p, "insert_rejected")
            /\ UNCHANGED <<contents, pcommits>>
       ELSE /\ contents' = contents \cup {session[p]}
            /\ session' = [session EXCEPT ![p] = NoContent]
            /\ pcommits' = [pcommits EXCEPT ![p] = @ + 1]
            /\ ppc' = [ppc EXCEPT ![p] = "refresh"]
            /\ UNCHANGED <<idx, item, success_count, tally, first_fail, ok_count>>
    /\ UNCHANGED <<blobs, len_items, submitted>>

\* the commit raises for another reason (metadata store unavailable)
CommitFails(p) ==
    /\ ppc[p] = "commit"
    /\ OnException(p, "insert_failed")
    /\ UNCHANGED <<contents, blobs, len_items, submitted, pcommits>>

\* session.refresh(content); logger.info(...); return True
Refresh(p) ==
    /\ ppc[p] = "refresh"
    /\ ItemReturn(p, TRUE, "stored")
    /\ UNCHANGED <<contents, blobs, len_items, session, submitted, pcommits>>

\* session.refresh raises after the commit went through
RefreshFails(p) ==
    /\ ppc[p] = "refresh"
    /\ OnException(p, "refresh_failed")
    /\ UNCHANGED <<contents, blobs, len_items, submitted, pcommits>>

\* the steps of process_item after the existence check
StoreStep(p) ==
    \/ SelectFails(p)
    \/ Upload(p)
    \/ UploadFails(p)
    \/ Commit(p)
    \/ CommitFails(p)
    \/ Refresh(p)
    \/ RefreshFails(p)

InitPipeline ==
    /\ contents = {}
    /\ blobs = {}
    /\ ppc = [p \in Pipelines |-> "idle"]
    /\ len_items = [p \in Pipelines |-> 0]
    /\ idx = [p \in Pipelines |-> 1]
    /\ item = [p \in Pipelines |-> NoItem]
    /\ success_count = [p \in Pipelines |-> 0]
    /\ session = [p \in Pipelines |-> NoContent]
    /\ submitted = 0
    /\ tally = [p \in Pipelines |-> [t \in Kinds |-> 0]]
    /\ first_fail = [p \in Pipelines |-> 0]
    /\ pcommits = [p \in Pipelines |-> 0]
    /\ ok_count = [u \in UrlSpace |-> 0]

(***************************************************************************)
(* Fetcher: HttpxFetcher.fetch with robots.txt and the retry loop.         *)
(* A url is a domain and a path.  A robots.txt is the set of               *)
(* <<user agent, path>> pairs it disallows.  An entry of robot_parsers is  *)
(* [cached, read, rules]: read is whether read() completed on the parser   *)
(* (its last_checked); urllib's can_fetch answers False on a parser that   *)
(* was never read.                                                         *)
(***************************************************************************)
Domains == {"d1", "d2"}
Paths == {"public", "private"}
UserAgents == {"*", "bot"}
Requests == [domain : Domains, path : Paths, ua_header : {"none", "bot"},
             method_enum : BOOLEAN]
NoRequest == [domain |-> "none"]
NotCached == [cached |-> FALSE, read |-> FALSE, rules |-> {}]
AllPairs == UserAgents \X Paths
RobotsTxts == {{}, {<<"bot", "private">>}, {<<"*", "private">>, <<"bot", "private">>}}
Outcomes == {"2xx", "429", "500", "other", "transport"}

\* req.headers.get('User-Agent', '*') if req.headers else '*'
UserAgent(rq) == IF rq.ua_header = "none" THEN "*" ELSE rq.ua_header

\* RobotFileParser(): set_url only, never read
UnreadParser == [cached |-> TRUE, read |-> FALSE, rules |-> {}]

\* rp.read() completed on a robots.txt with these rules
ReadParser(rules) == [cached |-> TRUE, read |-> TRUE, rules |-> rules]

\* what rp.read() meets: the robots.txt served, or an exception
Loads == {[raises |-> TRUE, rules |-> {}]}
             \cup {[raises |-> FALSE, rules |-> t] : t \in RobotsTxts}

\* (mutant) a load that failed is not cached
LoadedParserForgetsFailure(load) == IF load.raises THEN NotCached ELSE ReadParser(load.rules)

\* _get_robots_parser: the parser cached after the load
LoadedParser(load) == IF load.raises THEN UnreadParser ELSE ReadParser(load.rules)

\* (mutant) the robots verdict is ignored
ParserAllowsAll(parser, ua, path) == TRUE

\* RobotFileParser.can_fetch(user_agent, url)
ParserCanFetch(parser, ua, path) ==
    IF ~parser.read THEN FALSE ELSE <<ua, path>> \notin parser.rules

\* (mutant) 2 * attempt
BackoffLinear(k) == 2 * k

\* wait_time = 2 ** attempt
Backoff(k) == 2 ^ k

\* fetch() up to the retry loop: can_fetch (loading and caching the domain's
\* robots.txt on first use), then return None or enter the loop
FetchCall(rq, load) ==
    /\ fpc \in {"idle", "done"}
    /\ freq' = rq
    /\ attempt' = 0
    /\ exchanges' = 0
    /\ sleeps' = <<>>
    /\ seen' = {}
    /\ LET d == rq.domain
           must_load == respect_rebots /\ robot_parsers[d] = NotCached
           parser == IF must_load THEN LoadedParser(load) ELSE robot_parsers[d]
           can_fetch == IF ~respect_rebots THEN TRUE
                        ELSE ParserCanFetch(parser, UserAgent(rq), rq.path)
       IN /\ robot_parsers' = [robot_parsers EXCEPT ![d] = parser]
          /\ robots_loads' = [robots_loads EXCEPT ![d] = IF must_load THEN @ + 1 ELSE @]
          /\ load_failed' = [load_failed EXCEPT ![d] =
                                IF must_load THEN load.raises ELSE @]
          /\ blocked' = ~can_fetch
          /\ IF can_fetch /\ max_retries > 0
             THEN fpc' = "attempt" /\ fresult' = "none"
             ELSE fpc' = "done" /\ fresult' = "null"
    /\ UNCHANGED <<max_retries, respect_rebots>>

\* (mutant) every failed attempt sleeps and goes on to the next one
AlwaysBackoff(sleep_first) ==
    /\ sleeps' = Append(sleeps, Backoff(attempt))
    /\ fpc' = "sleeping"
    /\ fresult' = "none"

\* (mutant) no failed attempt is retried
NeverBackoff(sleep_first) ==
    /\ sleeps' = sleeps
    /\ fpc' = "done"
    /\ fresult' = "null"

\* after an attempt that does not return: the sleep, or return None
\* straight away when the handler says so
AfterFailure(sleep_first) ==
    IF sleep_first
    THEN /\ sleeps' = Append(sleeps, Backoff(attempt))
         /\ fpc' = "sleeping"
         /\ fresult' = "none"
    ELSE /\ sleeps' = sleeps
         /\ fpc' = "done"
         /\ fresult' = "null"

\* one pass of the for loop up to its sleep or return: client.request with
\* method=req.method.value, raise_for_status, the except branches
Attempt(outcome) ==
    /\ fpc = "attempt"
    /\ IF ~freq.method_enum
       THEN \* req.method is a plain str: .value raises AttributeError before
            \* any exchange; the generic except branch handles it
            /\ exchanges' = exchanges
            /\ seen' = seen \cup {"attribute_error"}
            /\ AfterFailure(attempt < max_retries - 1)
       ELSE /\ exchanges' = exchanges + 1
            /\ seen' = seen \cup {outcome}
            /\ CASE outcome = "2xx" ->
                      /\ fresult' = "response"
                      /\ fpc' = "done"
                      /\ sleeps' = sleeps
                 [] outcome \in {"429", "500"} -> AfterFailure(TRUE)
                 [] outcome = "other" -> AfterFailure(FALSE)
                 [] outcome = "transport" -> AfterFailure(attempt < max_retries - 1)
    /\ UNCHANGED <<max_retries, respect_rebots, robot_parsers, freq, attempt,
                   blocked, robots_loads, load_failed>>

\* (mutant) the sleep is followed by another attempt whatever the budget
WakeUnbounded ==
    /\ fpc = "sleeping"
    /\ attempt' = attempt + 1
    /\ fpc' = "attempt"
    /\ fresult' = "none"
    /\ UNCHANGED <<max_retries, respect_rebots, robot_parsers, freq, exchanges,
                   sleeps, seen, blocked, robots_loads, load_failed>>

\* the sleep ends: next attempt of range(max_retries), or the loop is over
\* and fetch returns None
Wake ==
    /\ fpc = "sleeping"
    /\ attempt' = attempt + 1
    /\ IF attempt + 1 < max_retries
       THEN fpc' = "attempt" /\ fresult' = "none"
       ELSE fpc' = "done" /\ fresult' = "null"
    /\ UNCHANGED <<max_retries, respect_rebots, robot_parsers, freq, exchanges,
                   sleeps, seen, blocked, robots_loads, load_failed>>

\* HttpxFetcher(max_retries=n, respect_robots=r)
InitFetcher(n, r) ==
    /\ max_retries = n
    /\ respect_rebots = r
    /\ robot_parsers = [d \in Domains |-> NotCached]
    /\ fpc = "idle"
    /\ freq = NoRequest
    /\ attempt = 0
    /\ fresult = "none"
    /\ exchanges = 0
    /\ sleeps = <<>>
    /\ seen = {}
    /\ blocked = FALSE
    /\ robots_loads = [d \in Domains |-> 0]
    /\ load_failed = [d \in Domains |-> FALSE]

(***************************************************************************)
(* Engine: CrawlerEngine.crawl_spider.  The spider is any ISpider: seeds() *)
(* and parse()/parse_full_content() return any lists within the bounds, or *)
(* parse raises.  The fetcher and renderer are taken at their interface:   *)
(* a dispatch returns a Response or None.  crawl_spider is split at its    *)
(* awaits (before_request, fetch/render, after_request, process_items).    *)
(***************************************************************************)
NoReq == [id |-> 0, parent |-> 0, use_render |-> FALSE]

RECURSIVE SeqsUpTo(_, _)
SeqsUpTo(S, n) ==
    IF n = 0 THEN {<<>>}
    ELSE LET shorter == SeqsUpTo(S, n - 1)
         IN shorter \cup {Append(t, x) : t \in {w \in shorter : Len(w) = n - 1}, x \in S}

\* the n Requests a spider call returns: numbered from first on, in list
\* order, all with the same use_render
NewRequests(first, parent, n, use_render) ==
    [k \in 1..n |-> [id |-> first + k - 1, parent |-> parent, use_render |-> use_render]]

\* (mutant) follow-ups go to the head of the frontier
ExtendFront(frontier, new_requests) == new_requests \o frontier

\* requests.extend(new_requests)
Extend(frontier, new_requests) == frontier \o new_requests

\* (mutant) all_items = items
ReplaceItems(items_so_far, new_items) == new_items

\* all_items.extend(items)
ExtendItems(items_so_far, new_items) == items_so_far \o new_items

\* (mutant) the loop is left once a request was processed
LoopLeftEarly == requests = <<>> \/ dispatched # <<>>

\* while requests: ... is over
LoopOver == requests = <<>>

\* (mutant) the renderer's type is not looked at
RenderWhenAsked(r) == IF r.use_render THEN "renderer" ELSE "fetcher"

\* if req.use_render and isinstance(self.renderer, PlaywrightRenderer)
ExecutorOf(r) ==
    IF r.use_render /\ renderer = "playwright" THEN "renderer" ELSE "fetcher"

\* the request is handed to its executor
Dispatch(r) ==
    /\ epc' = "inflight"
    /\ executor' = ExecutorOf(r)
    /\ dispatched' = Append(dispatched, [id |-> r.id, parent |-> r.parent])

\* crawl_spider up to the loop: set_anti_bot if config has qps or delay,
\* requests = spider.seeds(), all_items = []
CrawlSpider(throttled, n, use_render) ==
    /\ epc = "init"
    /\ anti_bot' = (anti_bot \/ throttled)
    /\ requests' = NewRequests(next_id, 0, n, use_render)
    /\ next_id' = next_id + n
    /\ n_seeds' = n
    /\ all_items' = <<>>
    /\ epc' = "loop"
    /\ UNCHANGED <<renderer, req, returned, dispatched, executor, parse_log,
                   nulls, handoffs>>
    /\ UNCHANGED pipeVars

\* req = requests.pop(0); then before_request is awaited, or the request
\* is dispatched at once
Pop ==
    /\ epc = "loop"
    /\ ~LoopOver
    /\ req' = Head(requests)
    /\ requests' = Tail(requests)
    /\ IF anti_bot
       THEN epc' = "before" /\ UNCHANGED <<executor, dispatched>>
       ELSE Dispatch(Head(requests))
    /\ UNCHANGED <<renderer, anti_bot, all_items, returned, next_id, n_seeds,
                   parse_log, nulls, handoffs>>
    /\ UNCHANGED pipeVars

\* before_request returned
BeforeRequestDone ==
    /\ epc = "before"
    /\ Dispatch(req)
    /\ UNCHANGED <<renderer, anti_bot, requests, req, all_items, returned, next_id,
                   n_seeds, parse_log, nulls, handoffs>>
    /\ UNCHANGED pipeVars

\* (mutant) a dispatch that returned None ends the run with an exception
ResultNoneRaises ==
    /\ epc = "inflight"
    /\ epc' = "raised"
    /\ executor' = "none"
    /\ nulls' = nulls + 1
    /\ UNCHANGED <<renderer, anti_bot, requests, req, all_items, returned, next_id,
                   n_seeds, dispatched, parse_log, handoffs>>
    /\ UNCHANGED pipeVars

\* (mutant) a request whose dispatch returned None goes back to the frontier
ResultNoneRequeues ==
    /\ epc = "inflight"
    /\ epc' = "loop"
    /\ req' = NoReq
    /\ requests' = Append(requests, req)
    /\ executor' = "none"
    /\ nulls' = nulls + 1
    /\ UNCHANGED <<renderer, anti_bot, all_items, returned, next_id,
                   n_seeds, dispatched, parse_log, handoffs>>
    /\ UNCHANGED pipeVars

\* the dispatch returned None: log, continue
ResultNone ==
    /\ epc = "inflight"
    /\ epc' = "loop"
    /\ req' = NoReq
    /\ executor' = "none"
    /\ nulls' = nulls + 1
    /\ UNCHANGED <<renderer, anti_bot, requests, all_items, returned, next_id,
                   n_seeds, dispatched, parse_log, handoffs>>
    /\ UNCHANGED pipeVars

\* the dispatch returned a Response; parse (or parse_full_content) returns
\* items and new_requests; both lists are extended; then after_request is
\* awaited if anti_bot is set
ResultParsed(new_items, n, use_render) ==
    /\ epc = "inflight"
    /\ all_items' = ExtendItems(all_items, new_items)
    /\ requests' = Extend(requests, NewRequests(next_id, req.id, n, use_render))
    /\ next_id' = next_id + n
    /\ parse_log' = Append(parse_log, [items |-> new_items, follow_ups |-> n])
    /\ executor' = "none"
    /\ IF anti_bot
       THEN epc' = "after" /\ req' = req
       ELSE epc' = "loop" /\ req' = NoReq
    /\ UNCHANGED <<renderer, anti_bot, returned, n_seeds, dispatched, nulls, handoffs>>
    /\ UNCHANGED pipeVars

\* the dispatch returned a Response and the spider's parse raises: nothing
\* in crawl_spider catches it
ParseRaises ==
    /\ epc = "inflight"
    /\ epc' = "raised"
    /\ executor' = "none"
    /\ UNCHANGED <<renderer, anti_bot, requests, req, all_items, returned, next_id,
                   n_seeds, dispatched, parse_log, nulls, handoffs>>
    /\ UNCHANGED pipeVars

\* after_request returned
AfterRequestDone ==
    /\ epc = "after"
    /\ epc' = "loop"
    /\ req' = NoReq
    /\ UNCHANGED <<renderer, anti_bot, requests, all_items, returned, next_id,
                   n_seeds, dispatched, executor, parse_log, nulls, handoffs>>
    /\ UNCHANGED pipeVars

\* after the loop: if all_items: await pipeline.process_items(all_items),
\* else return 0.  The history of the loop ends with the loop.
LoopEnd ==
    /\ epc = "loop"
    /\ LoopOver
    /\ IF all_items # <<>>
       THEN /\ ProcessItems("p1", Len(all_items))
            /\ epc' = "pipeline"
            /\ handoffs' = handoffs + 1
            /\ returned' = returned
       ELSE /\ epc' = "done"
            /\ returned' = 0
            /\ UNCHANGED <<handoffs, pipeVars>>
    /\ next_id' = 1
    /\ n_seeds' = 0
    /\ dispatched' = <<>>
    /\ parse_log' = <<>>
    /\ nulls' = 0
    /\ UNCHANGED <<renderer, anti_bot, requests, req, all_items, executor>>

\* a step of process_items on all_items
PipelineRuns ==
    /\ epc = "pipeline"
    /\ \/ ppc["p1"] = "select" /\ SelectExisting("p1", all_items[idx["p1"]])
       \/ StoreStep("p1")
    /\ UNCHANGED engineVars

\* process_items returned: return success_count
ReturnCount ==
    /\ epc = "pipeline"
    /\ ppc["p1"] = "done"
    /\ epc' = "done"
    /\ returned' = success_count["p1"]
    /\ UNCHANGED <<renderer, anti_bot, requests, req, all_items, next_id, n_seeds,
                   dispatched, executor, parse_log, nulls, handoffs>>
    /\ UNCHANGED pipeVars

\* CrawlerEngine(renderer=...): anti_bot = None
InitEngine(r) ==
    /\ epc = "init"
    /\ renderer = r
    /\ anti_bot = FALSE
    /\ requests = <<>>
    /\ req = NoReq
    /\ all_items = <<>>
    /\ returned = -1
    /\ next_id = 1
    /\ n_seeds = 0
    /\ dispatched = <<>>
    /\ executor = "none"
    /\ parse_log = <<>>
    /\ nulls = 0
    /\ handoffs = 0

(***************************************************************************)
(* The time a fetch call keeps its caller waiting: each client.request     *)
(* answers or times out within the client's timeout, each asyncio.sleep    *)
(* lasts its wait_time.                                                    *)
(***************************************************************************)
DefaultTimeout == 30
Timeouts == {1, DefaultTimeout}

\* how long an exchange lasts under httpx.AsyncClient(timeout=t): it is
\* answered at once, or it lasts until the timeout
AttemptWaits(t) == {0, t}

\* HttpxFetcher(timeout=t)
InitClock(t) ==
    /\ timeout = t
    /\ suspended = 0

\* fetch() up to the retry loop; start_time = time.time()
TimedFetchCall(rq, load) ==
    /\ FetchCall(rq, load)
    /\ suspended' = 0
    /\ timeout' = timeout

\* one pass of the for loop whose exchange, if one is made, lasts wait
TimedAttempt(outcome, wait) ==
    /\ Attempt(outcome)
    /\ suspended' = suspended + (IF freq.method_enum THEN wait ELSE 0)
    /\ timeout' = timeout

\* await asyncio.sleep(wait_time) is over
TimedWake ==
    /\ Wake
    /\ suspended' = suspended + sleeps[Len(sleeps)]
    /\ timeout' = timeout


(***************************************************************************)
(* crawl_site: builds the spider the config names, runs crawl_spider on a  *)
(* fresh CrawlerEngine() (HttpxFetcher, StoragePipeline, NoopRenderer),    *)
(* closes the engine, logs.  The spider is an RSSSpider: one seed for the  *)
(* feed; the feed's parse returns items and at most one follow-up per      *)
(* item, a follow-up's parse_full_content returns one item or none.        *)
(***************************************************************************)
\* the config dict: config.get('spider', 'rss'); whether it has the keys
\* 'source_name' and 'feed_url'; its throttling: neither qps nor delay,
\* a qps below 1, or any other
Configs == [spider : {"rss", "html"}, has_urls : BOOLEAN,
            throttle : {"absent", "low", "ok"}]
NoConfig == [spider |-> "none", has_urls |-> FALSE, throttle |-> "absent"]

\* Python values a coroutine hands to its caller
PyNone == [is_none |-> TRUE, int |-> 0]
PyInt(n) == [is_none |-> FALSE, int |-> n]

Min(a, b) == IF a <= b THEN a ELSE b

\* (mutant) every spider type is taken for a feed
AnySpider(spider_type) == TRUE

\* if spider_type == 'rss'
KnownSpider(spider_type) == spider_type = "rss"

\* crawl_site up to its first await: build the spider or raise; then
\* CrawlerEngine() and crawl_spider up to its loop
CrawlSite(cfg) ==
    /\ spc = "idle"
    /\ config' = cfg
    /\ IF KnownSpider(cfg.spider) /\ cfg.has_urls
       THEN /\ spider' = "rss"
            /\ engine_made' = TRUE
            /\ spc' = "crawling"
            /\ site_error' = site_error
            /\ CrawlSpider(cfg.throttle # "absent", 1, FALSE)
       ELSE /\ spc' = "raised"
            /\ site_error' = IF KnownSpider(cfg.spider) THEN "KeyError" ELSE "ValueError"
            /\ UNCHANGED <<spider, engine_made, engineVars, pipeVars>>
    /\ UNCHANGED <<engine_closed, result, site_value, closed_calls>>

\* await self.anti_bot.before_request(req) raises: AsyncLimiter.acquire
\* refuses a token larger than its max_rate; nothing in crawl_spider
\* catches it
BeforeRequestRaises ==
    /\ epc = "before"
    /\ epc' = "raised"
    /\ UNCHANGED <<renderer, anti_bot, requests, req, all_items, returned, next_id,
                   n_seeds, dispatched, executor, parse_log, nulls, handoffs>>
    /\ UNCHANGED pipeVars

\* the response of the request in flight is parsed by the RSSSpider
FeedSpiderParses ==
    LET seed == req.parent = 0
        room == MaxItems - Len(all_items)
    IN \E new_items \in SeqsUpTo(Urls, IF seed THEN room ELSE Min(1, room)) :
          \E n \in 0..(IF seed THEN Min(Len(new_items), MaxRequests + 1 - next_id) ELSE 0) :
             ResultParsed(new_items, n, FALSE)

\* a step of the crawl_spider call crawl_site awaits
SpiderRuns ==
    /\ spc = "crawling"
    /\ \/ Pop
       \/ config.throttle # "low" /\ BeforeRequestDone
       \/ config.throttle = "low" /\ BeforeRequestRaises
       \/ ResultNone
       \/ FeedSpiderParses
       \/ AfterRequestDone
       \/ LoopEnd
       \/ PipelineRuns
       \/ ReturnCount
    /\ UNCHANGED siteVars

\* crawl_spider returned: result = ...; await engine.close();
\* log_crawl_complete(...); the function ends without a return statement
SiteCompletes ==
    /\ spc = "crawling"
    /\ epc = "done"
    /\ result' = returned
    /\ engine_closed' = TRUE
    /\ site_value' = PyNone
    /\ spc' = "returned"
    /\ UNCHANGED <<config, spider, engine_made, site_error, closed_calls>>
    /\ UNCHANGED <<engineVars, pipeVars>>

\* crawl_spider raised: except Exception: log_crawl_error(...); raise
SitePropagates ==
    /\ spc = "crawling"
    /\ epc = "raised"
    /\ spc' = "raised"
    /\ site_error' = "escaped"
    /\ UNCHANGED <<config, spider, engine_made, engine_closed, result, site_value,
                   closed_calls>>
    /\ UNCHANGED <<engineVars, pipeVars>>

InitSite ==
    /\ spc = "idle"
    /\ config = NoConfig
    /\ spider = "none"
    /\ engine_made = FALSE
    /\ engine_closed = FALSE
    /\ result = -1
    /\ site_value = PyInt(-1)
    /\ site_error = "none"
    /\ closed_calls = 0


(***************************************************************************)
(* AntiBotMiddleware.before_request: the limiter's token, then the delay.  *)
(* RateLimiter wraps aiolimiter's AsyncLimiter(max_rate=qps,               *)
(* time_period=1.0), a leaky bucket: the level leaks max_rate per second,  *)
(* acquire() waits until level + 1 <= max_rate and then adds 1; a fresh    *)
(* bucket is empty.  qps is counted in halves (bot_qps = 2 * qps) and the  *)
(* level in units of 1/(2*TicksPerSec) token, so that the leak of one tick *)
(* is bot_qps units.                                                       *)
(***************************************************************************)
TicksPerSec == 4
MaxCalls == 10

\* qps: None, 0.5, 1.0, 2.0
QpsValues == {0, 1, 2, 4}
\* delay: 0, a quarter of a second, one second (the default)
Delays == {0, TicksPerSec \div 4, TicksPerSec}
\* random.uniform(0, 0.5): its ends
Jitters == {0, TicksPerSec \div 2}
\* what the caller does between two before_request calls takes this long
WorkTimes == {1, TicksPerSec}

\* one token
Token == 2 * TicksPerSec

\* AsyncLimiter.max_rate
MaxRate == bot_qps * TicksPerSec

\* AsyncLimiter._leak at time t: if self._level: level = max(level - elapsed * rate, 0)
Leaked(t) ==
    IF level = 0 THEN 0
    ELSE IF level - (t - last_check) * bot_qps > 0
         THEN level - (t - last_check) * bot_qps
         ELSE 0

\* AsyncLimiter.has_capacity(1) at time t
HasCapacity(t) == Leaked(t) + Token <= MaxRate

\* when acquire() gets past its while loop
WakeTime ==
    CHOOSE t \in now..(now + Token) :
        HasCapacity(t) /\ \A u \in now..(t - 1) : ~HasCapacity(u)

\* before_request up to the delay: if self.limiter: await self.limiter.acquire().
\* acquire raises ValueError when one token exceeds max_rate.
BeforeRequest ==
    /\ bpc = "idle"
    /\ calls < MaxCalls
    /\ IF bot_qps = 0
       THEN bpc' = "delay" /\ UNCHANGED <<level, last_check, now>>
       ELSE IF Token > MaxRate
            THEN bpc' = "raised" /\ UNCHANGED <<level, last_check, now>>
            ELSE /\ now' = WakeTime
                 /\ level' = Leaked(WakeTime) + Token
                 /\ last_check' = WakeTime
                 /\ bpc' = "delay"
    /\ UNCHANGED <<bot_qps, bot_delay, bot_jitter, calls, last_done, gap>>

\* if self.delay > 0: sleep delay (+ random.uniform(0, 0.5) with jitter);
\* before_request returns
Delay(extra) ==
    /\ bpc = "delay"
    /\ now' = now + (IF bot_delay > 0
                     THEN bot_delay + (IF bot_jitter THEN extra ELSE 0)
                     ELSE 0)
    /\ calls' = calls + 1
    /\ gap' = IF calls = 0 THEN -1 ELSE now' - last_done
    /\ last_done' = now'
    /\ bpc' = "idle"
    /\ UNCHANGED <<bot_qps, bot_delay, bot_jitter, level, last_check>>

\* the caller runs its request before it calls before_request again
CallerWorks(d) ==
    /\ bpc = "idle"
    /\ calls \in 1..(MaxCalls - 1)
    /\ now = last_done
    /\ now' = now + d
    /\ UNCHANGED <<bot_qps, bot_delay, bot_jitter, level, last_check, bpc, calls,
                   last_done, gap>>

\* AntiBotMiddleware(qps, delay, jitter): the first call starts at time 0
InitBot(q, d, j) ==
    /\ bot_qps = q
    /\ bot_delay = d
    /\ bot_jitter = j
    /\ level = 0
    /\ last_check = 0
    /\ now = 0
    /\ bpc = "idle"
    /\ calls = 0
    /\ last_done = 0
    /\ gap = -1


(***************************************************************************)
(* RSSSpider.parse.  A feed is the sequence of its entries; an entry is    *)
(* what its extraction meets: a body of 500 characters or more ("long"), a *)
(* shorter one ("short"), a shorter one in an entry without a link         *)
(* ("nolink"), or an exception ("malformed").  Items and urls are named by *)
(* the position of their entry; the item of a full-content page is 0.      *)
(***************************************************************************)
MaxEntries == 5
EntryKinds == {"long", "short", "nolink", "malformed"}
Feeds == SeqsUpTo(EntryKinds, MaxEntries)

\* entries = feed.entries[:self.max_items] if self.max_items else feed.entries
Entries ==
    IF max_items # 0
    THEN SubSeq(feed_entries, 1, Min(max_items, Len(feed_entries)))
    ELSE feed_entries

\* Request(url=url, method="GET", metadata={"source": ..., "fetch_full": True,
\* "original_item_url": url}) for the entry at pos
FollowUp(pos) == [url |-> pos, fetch_full |-> TRUE, original_item_url |-> pos]

\* crawl_spider: is_full_content = req.metadata.get('fetch_full', False);
\* parse_full_content if it is set and the spider has one, else parse
RouteOf(rq) == IF rq.fetch_full THEN "parse_full_content" ELSE "parse"

\* (mutant) the spider's fetch_full_content is not looked at
ShortBody(kind) == kind = "short"

\* if self.fetch_full_content and url and len(body) < 500
NeedsFullContent(kind) == fetch_full_content /\ kind = "short"

\* the for loop moves on from the entry at pos
NextEntry(pos) == IF pos < Len(Entries) THEN "entry" ELSE "returned"

\* (mutant) an entry's exception ends the loop
EntryErrorEndsLoop(pos) == "returned"

\* except Exception as e: logger.error(...); continue
OnEntryError(pos) == NextEntry(pos)

\* parse(resp) on a follow-up's response (is_feed not set): return
\* self.parse_full_content(resp), which gives [item], [] or, when it fails,
\* [], []
ParseFullContent(ok) ==
    /\ rpc \in {"idle", "returned", "returned_full"}
    /\ rpc' = "returned_full"
    /\ feed_entries' = <<>>
    /\ entry' = 1
    /\ items' = IF ok THEN <<0>> ELSE <<>>
    /\ new_reqs' = <<>>
    /\ entry_errors' = <<>>
    /\ UNCHANGED <<max_items, fetch_full_content>>

\* parse(resp) on the feed's response up to the for loop; when
\* feedparser.parse raises, the outer except logs and parse returns [], []
Parse(feed, parses) ==
    /\ rpc \in {"idle", "returned", "returned_full"}
    /\ feed_entries' = IF parses THEN feed ELSE <<>>
    /\ entry' = 1
    /\ items' = <<>>
    /\ new_reqs' = <<>>
    /\ entry_errors' = <<>>
    /\ rpc' = IF parses /\ feed # <<>> THEN "entry" ELSE "returned"
    /\ UNCHANGED <<max_items, fetch_full_content>>

\* one pass of the for loop: the entry's fields are extracted, the Item is
\* appended and, with fetch_full_content and a body under 500 characters, a
\* follow-up Request; or the extraction raises
ExtractEntry ==
    /\ rpc = "entry"
    /\ IF Entries[entry] = "malformed"
       THEN /\ entry_errors' = Append(entry_errors, entry)
            /\ rpc' = OnEntryError(entry)
            /\ UNCHANGED <<items, new_reqs>>
       ELSE /\ items' = Append(items, entry)
            /\ new_reqs' = IF NeedsFullContent(Entries[entry])
                           THEN Append(new_reqs, FollowUp(entry))
                           ELSE new_reqs
            /\ rpc' = NextEntry(entry)
            /\ UNCHANGED entry_errors
    /\ entry' = entry + 1
    /\ UNCHANGED <<max_items, fetch_full_content, feed_entries>>

\* RSSSpider(max_items=m, fetch_full_content=f)
InitFeed(m, f) ==
    /\ rpc = "idle"
    /\ max_items = m
    /\ fetch_full_content = f
    /\ feed_entries = <<>>
    /\ entry = 1
    /\ items = <<>>
    /\ new_reqs = <<>>
    /\ entry_errors = <<>>

InitMore ==
    /\ url_of = <<>>
    /\ run_no = 0
    /\ run_throttled = FALSE
    /\ browser = FALSE
    /\ render_pc = "idle"
    /\ net_hits = {}
    /\ heap = [i \in 0..(4 * Cardinality(Pipelines)) |-> [kind |-> "free"]]
    /\ next_obj = 1
    /\ storage_service = 0
    /\ run = [r \in Pipelines |->
                 [pc |-> "idle", fetcher |-> 0, limiter |-> 0, frame |-> 0, storage |-> 0]]

\* what the specifications that run another component start these from
InitLater ==
    /\ InitMore
    /\ InitClock(DefaultTimeout)
    /\ InitSite
    /\ InitBot(0, TicksPerSec, TRUE)
    /\ InitFeed(0, FALSE)


(***************************************************************************)
(* SpecPipeline: two pipelines, lists of any urls of Urls, any             *)
(* interleaving, repeated calls against the same stores.                       *)
(***************************************************************************)
InitPipe == InitPipeline /\ InitFetcher(3, TRUE) /\ InitEngine("noop") /\ InitLater

NextPipe ==
    /\ \E p \in Pipelines :
          \/ \E n \in 0..(MaxItems - submitted) : ProcessItems(p, n)
          \/ \E u \in Urls : SelectExisting(p, u)
          \/ StoreStep(p)
    /\ UNCHANGED <<fetchVars, engineVars, laterVars>>

SpecPipeline == InitPipe /\ [][NextPipe]_vars

(***************************************************************************)
(* SpecBatch: one process_items call of one pipeline on an empty store,    *)
(* with a list of fresh items of pairwise distinct urls (item i has url i).*)
(***************************************************************************)
NextBatch ==
    /\ \/ \E n \in 1..BatchLen :
             /\ submitted = 0
             /\ ppc["p1"] = "idle"
             /\ ProcessItems("p1", n)
       \/ SelectExisting("p1", idx["p1"])
       \/ StoreStep("p1")
    /\ UNCHANGED <<fetchVars, engineVars, laterVars>>

SpecBatch == InitPipe /\ [][NextBatch]_vars

(***************************************************************************)
(* SpecFetch: one fetcher, any max_retries up to MaxRetries, robots        *)
(* enforcement on or off, any sequence of fetch calls and attempt outcomes.*)
(***************************************************************************)
InitFetch ==
    /\ InitPipeline
    /\ InitEngine("noop")
    /\ InitLater
    /\ \E n \in 0..MaxRetries : \E r \in BOOLEAN : InitFetcher(n, r)

NextFetch ==
    /\ \/ \E rq \in Requests : \E load \in Loads :
             FetchCall(rq, load)
       \/ \E outcome \in Outcomes : Attempt(outcome)
       \/ Wake
    /\ UNCHANGED <<pipeVars, engineVars, laterVars>>

SpecFetch == InitFetch /\ [][NextFetch]_vars

(***************************************************************************)
(* SpecEngine: one crawl_spider run on an engine with either renderer,     *)
(* with or without throttling, against empty stores; at most MaxRequests   *)
(* requests are created and at most MaxItems items extracted.              *)
(***************************************************************************)
InitEng ==
    /\ InitPipeline
    /\ InitFetcher(3, TRUE)
    /\ InitLater
    /\ \E r \in {"noop", "playwright"} : InitEngine(r)

NextEngine ==
    /\ \/ \E throttled, use_render \in BOOLEAN : \E n \in 0..MaxRequests :
             CrawlSpider(throttled, n, use_render)
       \/ Pop
       \/ BeforeRequestDone
       \/ ResultNone
       \/ \E new_items \in SeqsUpTo(Urls, MaxItems - Len(all_items)) :
             \E n \in 0..(MaxRequests + 1 - next_id) : \E use_render \in BOOLEAN :
                ResultParsed(new_items, n, use_render)
       \/ ParseRaises
       \/ AfterRequestDone
       \/ LoopEnd
       \/ PipelineRuns
       \/ ReturnCount
    /\ UNCHANGED <<fetchVars, laterVars>>

SpecEngine == InitEng /\ [][NextEngine]_vars

(***************************************************************************)
(* SpecFetchTimed: one fetch call of a fresh fetcher with the clock: any   *)
(* timeout of Timeouts, each exchange answered at once or lasting until    *)
(* the timeout.                                                            *)
(***************************************************************************)
InitTimed ==
    /\ InitPipeline
    /\ InitEngine("noop")
    /\ \E n \in 0..MaxRetries : \E r \in BOOLEAN : InitFetcher(n, r)
    /\ \E t \in Timeouts : InitClock(t)
    /\ InitSite
    /\ InitBot(0, TicksPerSec, TRUE)
    /\ InitFeed(0, FALSE)
    /\ InitMore

NextTimed ==
    /\ \/ \E rq \in Requests : \E load \in Loads :
             fpc = "idle" /\ TimedFetchCall(rq, load)
       \/ \E outcome \in Outcomes : \E wait \in AttemptWaits(timeout) :
             TimedAttempt(outcome, wait)
       \/ TimedWake
    /\ UNCHANGED <<pipeVars, engineVars, siteVars, botVars, feedVars, moreVars>>

SpecFetchTimed == InitTimed /\ [][NextTimed]_vars

(***************************************************************************)
(* SpecSite: one crawl_site call with any config, against empty stores.    *)
(***************************************************************************)
InitCrawlSite ==
    /\ InitPipeline
    /\ InitFetcher(3, TRUE)
    /\ InitEngine("noop")
    /\ InitLater

NextSite ==
    /\ \/ \E cfg \in Configs : CrawlSite(cfg)
       \/ SpiderRuns
       \/ SiteCompletes
       \/ SitePropagates
    /\ UNCHANGED <<fetchVars, clockVars, botVars, feedVars, moreVars>>

SpecSite == InitCrawlSite /\ [][NextSite]_vars

(***************************************************************************)
(* SpecThrottle: one middleware of any qps, delay and jitter, and up to    *)
(* MaxCalls before_request calls of one sequential caller.                 *)
(***************************************************************************)
InitThrottle ==
    /\ InitPipeline
    /\ InitFetcher(3, TRUE)
    /\ InitEngine("noop")
    /\ InitClock(DefaultTimeout)
    /\ InitSite
    /\ \E q \in QpsValues : \E d \in Delays : \E j \in BOOLEAN : InitBot(q, d, j)
    /\ InitFeed(0, FALSE)
    /\ InitMore

NextThrottle ==
    /\ \/ BeforeRequest
       \/ \E extra \in Jitters : Delay(extra)
       \/ \E d \in WorkTimes : CallerWorks(d)
    /\ UNCHANGED <<pipeVars, fetchVars, engineVars, clockVars, siteVars, feedVars, moreVars>>

SpecThrottle == InitThrottle /\ [][NextThrottle]_vars

(***************************************************************************)
(* SpecFeed: one RSSSpider with any max_items and fetch_full_content, and  *)
(* one parse call on any feed of up to MaxEntries entries or on a page.    *)
(***************************************************************************)
InitParse ==
    /\ InitPipeline
    /\ InitFetcher(3, TRUE)
    /\ InitEngine("noop")
    /\ InitClock(DefaultTimeout)
    /\ InitSite
    /\ InitBot(0, TicksPerSec, TRUE)
    /\ \E m \in 0..MaxEntries : \E f \in BOOLEAN : InitFeed(m, f)
    /\ InitMore

NextFeed ==
    /\ \/ rpc = "idle" /\ \E feed \in Feeds : \E parses \in BOOLEAN :
                               Parse(feed, parses)
       \/ rpc = "idle" /\ \E ok \in BOOLEAN : ParseFullContent(ok)
       \/ ExtractEntry
    /\ UNCHANGED <<pipeVars, fetchVars, engineVars, clockVars, siteVars, botVars, moreVars>>

SpecFeed == InitParse /\ [][NextFeed]_vars

(***************************************************************************)
(* A crawl_site run in full: the crawl_spider call of the RSSSpider the    *)
(* config describes.  The seed's response goes through RSSSpider.parse,    *)
(* entry by entry; the response of a follow-up goes to                     *)
(* parse_full_content, whose item has the url of the response, that of the *)
(* follow-up.  The follow-ups are numbered after the seed, in the order of *)
(* new_requests.                                                           *)
(***************************************************************************)
RunEntries == 2
RunFeeds == SeqsUpTo(EntryKinds, RunEntries)

\* (mutant) the page's item gets a url of its own
FollowUpOtherUrl(r) == new_reqs[r.id - 1].url + RunEntries

\* the url of the request in flight, a follow-up: Response(url=req.url, ...)
FollowUpUrl(r) == new_reqs[r.id - 1].url

\* a step of crawl_spider that is not a parse call
FeedRunStep ==
    /\ spc = "crawling"
    /\ \/ Pop
       \/ config.throttle # "low" /\ BeforeRequestDone
       \/ config.throttle = "low" /\ BeforeRequestRaises
       \/ ResultNone
       \/ AfterRequestDone
       \/ LoopEnd
       \/ PipelineRuns
       \/ ReturnCount
    /\ UNCHANGED <<siteVars, feedVars>>

\* the seed's response reaches spider.parse: is_feed is set
SeedParseStarts(feed, parses) ==
    /\ epc = "inflight"
    /\ req.parent = 0
    /\ rpc = "idle"
    /\ Parse(feed, parses)
    /\ UNCHANGED <<engineVars, pipeVars, siteVars>>

\* one pass of parse's loop over the entries
SeedEntry ==
    /\ epc = "inflight"
    /\ ExtractEntry
    /\ UNCHANGED <<engineVars, pipeVars, siteVars>>

\* parse returned items, new_requests to crawl_spider
SeedParsed ==
    /\ req.parent = 0
    /\ rpc = "returned"
    /\ ResultParsed(items, Len(new_reqs), FALSE)
    /\ UNCHANGED <<siteVars, feedVars>>

\* (mutant) the page of a follow-up asks for another fetch
FollowUpRefetched(ok) ==
    /\ req.parent # 0
    /\ ResultParsed(<<>>, 1, FALSE)
    /\ UNCHANGED <<siteVars, feedVars>>

\* the response of a follow-up (fetch_full set) reaches parse_full_content:
\* return [item], [] or, when the extraction raises, [], []
FollowUpParsed(ok) ==
    /\ req.parent # 0
    /\ ResultParsed(IF ok THEN <<FollowUpUrl(req)>> ELSE <<>>, 0, FALSE)
    /\ UNCHANGED <<siteVars, feedVars>>

InitFeedRun ==
    /\ InitPipeline
    /\ InitFetcher(3, TRUE)
    /\ InitEngine("noop")
    /\ InitClock(DefaultTimeout)
    /\ InitSite
    /\ InitBot(0, TicksPerSec, TRUE)
    /\ \E m \in 0..RunEntries : \E f \in BOOLEAN : InitFeed(m, f)
    /\ InitMore

NextFeedRun ==
    /\ \/ \E cfg \in Configs : CrawlSite(cfg) /\ UNCHANGED feedVars
       \/ FeedRunStep
       \/ \E feed \in RunFeeds : \E parses \in BOOLEAN : SeedParseStarts(feed, parses)
       \/ SeedEntry
       \/ SeedParsed
       \/ \E ok \in BOOLEAN : FollowUpParsed(ok)
       \/ SiteCompletes /\ UNCHANGED feedVars
       \/ SitePropagates /\ UNCHANGED feedVars
    /\ UNCHANGED <<fetchVars, clockVars, botVars, moreVars>>

(***************************************************************************)
(* SpecFeedRun: one crawl_site call with any config, any max_items and     *)
(* fetch_full_content, on a feed of up to RunEntries entries, against      *)
(* empty stores.  SpecFeedRunFair: the same where every awaited call       *)
(* returns or raises (before_request, the fetch, after_request, the store  *)
(* accesses, engine.close).                                                *)
(***************************************************************************)
SpecFeedRun == InitFeedRun /\ [][NextFeedRun]_vars

SpecFeedRunFair == SpecFeedRun /\ WF_vars(NextFeedRun)


(***************************************************************************)
(* A crawl_spider run seen with the urls of its requests: the adapter      *)
(* gives each request it creates any url, also one it used before.         *)
(* crawl_spider never reads a url.                                         *)
(***************************************************************************)
UrlLists(n) == [1..n -> Urls]

\* crawl_spider up to the loop: seeds() returned n requests with these urls
SeedsWithUrls(n, us) ==
    /\ CrawlSpider(FALSE, n, FALSE)
    /\ url_of' = us
    /\ UNCHANGED <<run_no, run_throttled, renderVars, concVars>>

\* (mutant) follow-ups to urls the run has requested before are dropped
ParsedDeduped(k, us) ==
    /\ epc = "inflight"
    /\ IF \E i \in 1..k : \E j \in 1..Len(url_of) : us[i] = url_of[j]
       THEN /\ parse_log' = Append(parse_log, [items |-> <<>>, follow_ups |-> k])
            /\ epc' = "loop"
            /\ req' = NoReq
            /\ executor' = "none"
            /\ UNCHANGED <<renderer, anti_bot, requests, all_items, returned, next_id,
                           n_seeds, dispatched, nulls, handoffs>>
            /\ UNCHANGED moreVars
            /\ UNCHANGED pipeVars
       ELSE /\ ResultParsed(<<>>, k, FALSE)
            /\ url_of' = url_of \o us
            /\ UNCHANGED <<run_no, run_throttled, renderVars, concVars>>

\* parse returned k new requests with these urls: requests.extend(new_requests)
ParsedWithUrls(k, us) ==
    /\ ResultParsed(<<>>, k, FALSE)
    /\ url_of' = url_of \o us
    /\ UNCHANGED <<run_no, run_throttled, renderVars, concVars>>

\* a step of the loop that creates no request
RefetchStep ==
    /\ \/ Pop
       \/ ResultNone
       \/ LoopEnd
    /\ url_of' = url_of
    /\ UNCHANGED <<run_no, run_throttled, renderVars, concVars>>

NextRefetch ==
    /\ \/ \E n \in 0..MaxRequests : \E us \in UrlLists(n) : SeedsWithUrls(n, us)
       \/ \E k \in 0..(MaxRequests + 1 - next_id) : \E us \in UrlLists(k) :
             ParsedWithUrls(k, us)
       \/ RefetchStep
    /\ UNCHANGED <<fetchVars, clockVars, siteVars, botVars, feedVars>>

(***************************************************************************)
(* SpecRefetch: one run, unthrottled, of an adapter that creates up to     *)
(* MaxRequests requests with any urls of Urls.                             *)
(***************************************************************************)
SpecRefetch == InitEng /\ [][NextRefetch]_vars


(***************************************************************************)
(* Several crawl_spider calls on one engine, one after the other.  The     *)
(* engine keeps self.anti_bot between the calls; requests and all_items    *)
(* are locals of each call.                                                *)
(***************************************************************************)
MaxRuns == 2

\* engine.crawl_spider(spider, config) is called: config has qps or delay
\* or has neither
CallSpider(throttled, n) ==
    /\ run_no < MaxRuns
    /\ CrawlSpider(throttled, n, FALSE)
    /\ run_no' = run_no + 1
    /\ run_throttled' = throttled
    /\ UNCHANGED <<url_of, renderVars, concVars>>

\* a step of the running call
ReuseStep ==
    /\ \/ Pop
       \/ BeforeRequestDone
       \/ ResultNone
       \/ \E n \in 0..(MaxRequests + 1 - next_id) : ResultParsed(<<>>, n, FALSE)
       \/ AfterRequestDone
       \/ LoopEnd
    /\ UNCHANGED moreVars

\* the call returned; the caller holds the engine for another call
Returned ==
    /\ epc = "done"
    /\ run_no < MaxRuns
    /\ epc' = "init"
    /\ UNCHANGED <<renderer, anti_bot, requests, req, all_items, returned, next_id,
                   n_seeds, dispatched, executor, parse_log, nulls, handoffs>>
    /\ UNCHANGED pipeVars
    /\ UNCHANGED moreVars

NextReuse ==
    /\ \/ \E throttled \in BOOLEAN : \E n \in 0..MaxRequests : CallSpider(throttled, n)
       \/ ReuseStep
       \/ Returned
    /\ UNCHANGED <<fetchVars, clockVars, siteVars, botVars, feedVars>>

(***************************************************************************)
(* SpecReuse: up to MaxRuns calls on one engine, each with or without      *)
(* qps/delay in its config, each creating up to MaxRequests requests.      *)
(***************************************************************************)
SpecReuse == InitEng /\ [][NextReuse]_vars


(***************************************************************************)
(* A crawl_spider run seen with its executors: the default HttpxFetcher    *)
(* (respect_robots=True) and the renderer the engine was built with.       *)
(* Each request's url is one the site's robots.txt disallows, or not.      *)
(***************************************************************************)
\* PlaywrightRenderer.render(req): start() if self.browser is not set,
\* outside the try; then new_page() and goto(req.url) inside it
Render(dis, starts, page) ==
    /\ epc = "inflight"
    /\ executor = "renderer"
    /\ render_pc = "idle"
    /\ browser' = (browser \/ starts)
    /\ IF ~browser /\ ~starts
       THEN /\ render_pc' = "raised"
            /\ net_hits' = net_hits
       ELSE IF page = "page_fails"
       THEN /\ render_pc' = "null"
            /\ net_hits' = net_hits
       ELSE /\ render_pc' = (IF page = "ok" THEN "response" ELSE "null")
            /\ net_hits' = net_hits \cup {<<"renderer", dis>>}
    /\ UNCHANGED <<pipeVars, engineVars, histVars, concVars>>

\* crawl_spider goes on with what render returned
Rendered ==
    /\ render_pc \in {"null", "response"}
    /\ IF render_pc = "null"
       THEN ResultNone
       ELSE \E n \in 0..(MaxRequests + 1 - next_id) : \E use_render \in BOOLEAN :
               ResultParsed(<<>>, n, use_render)
    /\ render_pc' = "idle"
    /\ UNCHANGED <<browser, net_hits, histVars, concVars>>

\* render raised: nothing in crawl_spider catches it
RenderEscapes ==
    /\ epc = "inflight"
    /\ render_pc = "raised"
    /\ epc' = "raised"
    /\ executor' = "none"
    /\ UNCHANGED <<renderer, anti_bot, requests, req, all_items, returned, next_id,
                   n_seeds, dispatched, parse_log, nulls, handoffs>>
    /\ UNCHANGED <<pipeVars, moreVars>>

\* HttpxFetcher.fetch(req): None without an exchange if can_fetch says no,
\* else the exchanges and a Response or None
Fetched(dis, ok) ==
    /\ epc = "inflight"
    /\ executor = "fetcher"
    /\ IF dis
       THEN /\ ResultNone
            /\ net_hits' = net_hits
       ELSE /\ net_hits' = net_hits \cup {<<"fetcher", dis>>}
            /\ IF ok
               THEN \E n \in 0..(MaxRequests + 1 - next_id) : \E use_render \in BOOLEAN :
                       ResultParsed(<<>>, n, use_render)
               ELSE ResultNone
    /\ UNCHANGED <<browser, render_pc, histVars, concVars>>

NextRender ==
    /\ \/ /\ \/ \E n \in 0..MaxRequests : \E use_render \in BOOLEAN :
                   CrawlSpider(FALSE, n, use_render)
             \/ Pop
             \/ LoopEnd
          /\ UNCHANGED moreVars
       \/ \E dis, starts \in BOOLEAN : \E page \in {"ok", "page_fails", "goto_fails"} :
             Render(dis, starts, page)
       \/ Rendered
       \/ RenderEscapes
       \/ \E dis, ok \in BOOLEAN : Fetched(dis, ok)
    /\ UNCHANGED <<fetchVars, clockVars, siteVars, botVars, feedVars>>

(***************************************************************************)
(* SpecRender: one unthrottled run on an engine with either renderer; the  *)
(* browser may fail to start, a page may fail to open or to load.          *)
(***************************************************************************)
SpecRender == InitEng /\ [][NextRender]_vars


(***************************************************************************)
(* A crawl_spider run that may end abnormally inside its loop: the task    *)
(* is cancelled at one of the loop's awaits, before_request raises, or     *)
(* parse raises.                                                           *)
(***************************************************************************)
\* (mutant) a cancelled run hands over what it has accumulated
CancelFlushes ==
    /\ epc \in {"before", "inflight", "after"}
    /\ epc' = "cancelled"
    /\ ProcessItems("p1", Len(all_items))
    /\ handoffs' = handoffs + 1
    /\ UNCHANGED <<renderer, anti_bot, requests, req, all_items, returned, next_id,
                   n_seeds, dispatched, executor, parse_log, nulls>>

\* CancelledError is raised at the await the run is suspended in:
\* before_request, fetch/render or after_request; nothing catches it
Cancel ==
    /\ epc \in {"before", "inflight", "after"}
    /\ epc' = "cancelled"
    /\ UNCHANGED <<renderer, anti_bot, requests, req, all_items, returned, next_id,
                   n_seeds, dispatched, executor, parse_log, nulls, handoffs>>
    /\ UNCHANGED pipeVars

NextAbort ==
    /\ \/ \E throttled \in BOOLEAN : \E n \in 0..MaxRequests :
             CrawlSpider(throttled, n, FALSE)
       \/ Pop
       \/ BeforeRequestDone
       \/ BeforeRequestRaises
       \/ ResultNone
       \/ \E new_items \in SeqsUpTo(Urls, MaxItems - Len(all_items)) :
             \E n \in 0..(MaxRequests + 1 - next_id) :
                ResultParsed(new_items, n, FALSE)
       \/ ParseRaises
       \/ AfterRequestDone
       \/ Cancel
       \/ LoopEnd
       \/ PipelineRuns
       \/ ReturnCount
    /\ UNCHANGED <<fetchVars, laterVars>>

(***************************************************************************)
(* SpecAbort: one run against empty stores that may be cancelled or raise  *)
(* inside the loop; at most MaxRequests requests and MaxItems items.       *)
(***************************************************************************)
SpecAbort == InitEng /\ [][NextAbort]_vars


(***************************************************************************)
(* Concurrent crawl_site calls, one per pipeline of Pipelines, seen with   *)
(* the objects they construct.  An object is its identity in heap; a call  *)
(* holds the identities of its fetcher (with the robots cache), of its     *)
(* limiter if it is throttled, of the frame of its crawl_spider call (the  *)
(* locals requests and all_items) and of the storage service.  The calls   *)
(* interleave at their awaits.                                             *)
(***************************************************************************)
\* (mutant) the fetcher is a module singleton, like the storage service
FetcherShared(fresh) ==
    IF \E r \in Pipelines : run[r].fetcher # 0
    THEN run[CHOOSE r \in Pipelines : run[r].fetcher # 0].fetcher
    ELSE fresh

\* CrawlerEngine(): self.fetcher = fetcher or HttpxFetcher()
FetcherFor(fresh) == fresh

\* get_storage_service(): the module's instance, constructed on first use
GetStorageService(fresh) == IF storage_service = 0 THEN fresh ELSE storage_service

\* the objects a call holds for itself
Own(r) == {run[r].fetcher, run[r].limiter, run[r].frame} \ {0}

\* the state of the objects a call holds for itself
Components(r) == [i \in Own(r) |-> heap[i]]

\* crawl_site up to the loop of crawl_spider: RSSSpider, CrawlerEngine()
\* with its HttpxFetcher and StoragePipeline, set_anti_bot if the config has
\* qps or delay, requests = spider.seeds(), all_items = []
StartRun(r, throttled) ==
    /\ run[r].pc = "idle"
    /\ LET f == FetcherFor(next_obj)
           fr == next_obj + 1
           lim == IF throttled THEN next_obj + 2 ELSE 0
           st == GetStorageService(next_obj + 3)
           made == [i \in DOMAIN heap |->
                      IF heap[i].kind # "free" THEN heap[i]
                      ELSE IF i = f THEN [kind |-> "fetcher", robot_parsers |-> {}]
                      ELSE IF i = fr THEN [kind |-> "frame", requests |-> <<1>>,
                                           all_items |-> <<>>, created |-> 1]
                      ELSE IF i = lim THEN [kind |-> "limiter", acquired |-> 0]
                      ELSE IF i = st THEN [kind |-> "storage"]
                      ELSE heap[i]]
       IN /\ heap' = made
          /\ storage_service' = st
          /\ run' = [run EXCEPT ![r] = [pc |-> "loop", fetcher |-> f, limiter |-> lim,
                                        frame |-> fr, storage |-> st]]
    /\ next_obj' = next_obj + 4
    /\ UNCHANGED pipeVars

\* one pass of the loop: pop, limiter.acquire if throttled, fetch (the
\* robots cache gains the url's domain: the feed's for the seed, the
\* articles' for a follow-up), parse, extend both lists.  The item of
\* request k has url k.
Iterate(r, found, follows) ==
    /\ run[r].pc = "loop"
    /\ heap[run[r].frame].requests # <<>>
    /\ LET fr == heap[run[r].frame]
           k == Head(fr.requests)
           d == IF k = 1 THEN "d1" ELSE "d2"
           more == follows /\ fr.created < RunEntries
           frame2 == [fr EXCEPT
                        !.requests = Tail(@) \o (IF more THEN <<fr.created + 1>> ELSE <<>>),
                        !.all_items = @ \o (IF found THEN <<k>> ELSE <<>>),
                        !.created = IF more THEN @ + 1 ELSE @]
       IN heap' = [i \in DOMAIN heap |->
                     IF i = run[r].fetcher
                     THEN [heap[i] EXCEPT !.robot_parsers = @ \cup {d}]
                     ELSE IF i = run[r].limiter /\ i # 0
                     THEN [heap[i] EXCEPT !.acquired = @ + 1]
                     ELSE IF i = run[r].frame THEN frame2
                     ELSE heap[i]]
    /\ UNCHANGED <<next_obj, storage_service, run, pipeVars>>

\* the loop is over: process_items(all_items) if there are items
Handoff(r) ==
    /\ run[r].pc = "loop"
    /\ heap[run[r].frame].requests = <<>>
    /\ IF heap[run[r].frame].all_items # <<>>
       THEN /\ ProcessItems(r, Len(heap[run[r].frame].all_items))
            /\ run' = [run EXCEPT ![r].pc = "storing"]
       ELSE /\ run' = [run EXCEPT ![r].pc = "done"]
            /\ UNCHANGED pipeVars
    /\ UNCHANGED <<heap, next_obj, storage_service>>

\* a step of process_items on the call's all_items while both stores are
\* available, or its return
Store(r) ==
    /\ run[r].pc = "storing"
    /\ \/ /\ ppc[r] = "select"
          /\ SelectExisting(r, heap[run[r].frame].all_items[idx[r]])
          /\ UNCHANGED concVars
       \/ /\ \/ Upload(r)
             \/ Commit(r)
             \/ Refresh(r)
          /\ UNCHANGED concVars
       \/ /\ ppc[r] = "done"
          /\ run' = [run EXCEPT ![r].pc = "done"]
          /\ UNCHANGED <<heap, next_obj, storage_service, pipeVars>>

NextConc ==
    /\ \E r \in Pipelines :
          \/ \E throttled \in BOOLEAN : StartRun(r, throttled)
          \/ \E found, follows \in BOOLEAN : Iterate(r, found, follows)
          \/ Handoff(r)
          \/ Store(r)
    /\ UNCHANGED <<fetchVars, engineVars, clockVars, siteVars, botVars, feedVars,
                   histVars, renderVars>>

(***************************************************************************)
(* SpecConc: two crawl_site calls in any interleaving, each with up to     *)
(* RunEntries requests, against empty stores that are available.           *)
(***************************************************************************)
SpecConc == InitPipe /\ [][NextConc]_vars


(***************************************************************************)
(* Claims on the pipeline.                                                 *)
(***************************************************************************)
Recorded(u) == \E r \in contents : r.url = u
RowsOf(u) == {r \in contents : r.url = u}

UrlUnique == \A u \in UrlSpace : Cardinality(RowsOf(u)) <= 1

\* a process_item that finds its url recorded ends there: False, no success
\* counted, both stores as they were
SkipsRecorded ==
    \A p \in Pipelines : \A u \in UrlSpace :
        (SelectExisting(p, u) /\ Recorded(u)) =>
            /\ idx'[p] = idx[p] + 1
            /\ success_count'[p] = success_count[p]
            /\ ok_count' = ok_count
            /\ contents' = contents
            /\ blobs' = blobs

\* C1: for any sequence of process_item / process_items calls against the
\* same stores, the metadata store never holds more than one row with a
\* given url, and processing an item whose url is already recorded returns
\* a skip (False, not counted) and adds no row.
C1_PersistAtMostOnce == [](UrlUnique) /\ [][SkipsRecorded]_vars

\* a duplicate inside or across calls was skipped while its row is in the store
C1_Witness ==
    \E p \in Pipelines :
        /\ tally[p]["skip"] >= 1
        /\ \E u \in Urls : Recorded(u) /\ ok_count[u] = 1

\* the insert of a url that is recorded by then is rejected, rolled back
\* and returns False to a process_items that goes on
LoserRejected ==
    \A p \in Pipelines :
        (Commit(p) /\ Recorded(session[p].url)) =>
            /\ contents' = contents
            /\ session'[p] = NoContent
            /\ success_count'[p] = success_count[p]
            /\ idx'[p] = idx[p] + 1
            /\ ppc'[p] = IF idx[p] < len_items[p] THEN "select" ELSE "done"

AtMostOneWinner ==
    /\ UrlUnique
    /\ \A u \in UrlSpace : ok_count[u] <= 1

\* C2: under any interleaving of two pipelines processing items with the
\* same url, at most one row for that url is ever committed; the losing
\* insert is rejected by the unique index, rolled back and reported as
\* False, the True results for the url sum to at most 1 and neither
\* process_items call aborts.
C2_ConcurrentDuplicates == [](AtMostOneWinner) /\ [][LoserRejected]_vars

\* both pipelines passed the existence check on one url; one committed, the
\* other was rejected and went on to finish its list
C2_Witness ==
    \E p, q \in Pipelines : \E u \in Urls :
        /\ p # q
        /\ tally[p]["rejected"] = 1 /\ ppc[p] = "done"
        /\ tally[q]["stored"] >= 1 /\ ppc[q] = "done"
        /\ ok_count[u] = 1
        /\ Cardinality(RowsOf(u)) = 1

Processed(p) ==
    tally[p]["skip"] + tally[p]["stored"] + tally[p]["rejected"]
        + tally[p]["store_failed"] + tally[p]["other_failed"]

\* C9: a failure while persisting one item (upload throws, insert fails) is
\* confined to it: process_items processes every item of the list, and for
\* n fresh items of distinct urls of which exactly one fails so it returns
\* n - 1.
C9_FailureIsolation ==
    \A p \in Pipelines :
        ppc[p] = "done" =>
            /\ idx[p] = len_items[p] + 1
            /\ Processed(p) = len_items[p]
            /\ (/\ tally[p]["store_failed"] = 1
                /\ tally[p]["other_failed"] = 0
                /\ tally[p]["rejected"] = 0
                /\ tally[p]["skip"] = 0)
               => success_count[p] = len_items[p] - 1

\* five items, the third one's upload or insert failed, the call returned 4
C9_Witness ==
    /\ ppc["p1"] = "done"
    /\ len_items["p1"] = 5
    /\ first_fail["p1"] = 3
    /\ tally["p1"]["store_failed"] = 1
    /\ tally["p1"]["stored"] = 4
    /\ success_count["p1"] = 4

\* C10: the value process_items returns is the number of rows committed
\* during the call, also when a step after the commit fails.
C10_CountIsCommitted ==
    \A p \in Pipelines : ppc[p] = "done" => success_count[p] = pcommits[p]

(***************************************************************************)
(* Claims on the fetcher.                                                  *)
(***************************************************************************)
InCall == freq # NoRequest

\* every attempt so far of the current call received 429 or 500
OnlyRateLimitedOrServerError == seen # {} /\ seen \subseteq {"429", "500"}

PowersOfTwo(n) == [k \in 1..n |-> 2 ^ (k - 1)]

\* C3: with max_retries = N, when every attempt receives 429 or 500, fetch
\* issues exactly N exchanges, sleeps 2^k seconds after the k-th failed
\* attempt (k = 0..N-1, the last sleep after the final attempt) and then
\* returns null.
C3_RetryBound ==
    (InCall /\ OnlyRateLimitedOrServerError) =>
        /\ exchanges <= max_retries
        /\ sleeps = PowersOfTwo(exchanges)
        /\ fpc = "done" => (exchanges = max_retries /\ fresult = "null")

\* max_retries = 3 against a server that always answers 500
C3_Witness ==
    /\ max_retries = 3
    /\ fpc = "done"
    /\ seen = {"500"}
    /\ exchanges = 3
    /\ sleeps = <<1, 2, 4>>
    /\ fresult = "null"

\* the cached robots rules of the request's domain disallow its path for
\* its User-Agent
Disallowed(rq) ==
    /\ respect_rebots
    /\ robot_parsers[rq.domain].read
    /\ <<IF rq.ua_header = "none" THEN "*" ELSE rq.ua_header, rq.path>>
           \in robot_parsers[rq.domain].rules

\* C4: with robots enforcement on, fetch on a url that the domain's robots
\* rules disallow for the request's User-Agent returns null and issues no
\* HTTP exchange for it: the retry loop is never entered.
C4_RobotsBlocks ==
    (InCall /\ Disallowed(freq)) =>
        /\ fpc = "done"
        /\ fresult = "null"
        /\ exchanges = 0
        /\ sleeps = <<>>
        /\ seen = {}

\* a request under the disallowed path came back null without an exchange
C4_Witness ==
    /\ InCall
    /\ freq.path = "private"
    /\ Disallowed(freq)
    /\ fpc = "done"
    /\ fresult = "null"
    /\ exchanges = 0

\* C5: if loading robots.txt for a domain fails, the fetcher treats the
\* domain as unrestricted: every later fetch to a url of the domain passes
\* the robots check and proceeds to the HTTP exchange.
C5_FailOpen ==
    (InCall /\ respect_rebots /\ load_failed[freq.domain]) =>
        /\ ~blocked
        /\ (fpc = "done" /\ freq.method_enum /\ max_retries > 0) => exchanges >= 1

(***************************************************************************)
(* Claims on the engine.  Requests are numbered in the order they enter    *)
(* the frontier: the seeds in list order, then each response's follow-ups  *)
(* in the order parse returned them.                                       *)
(***************************************************************************)
\* the requests not yet dispatched, in frontier order
Pending == (IF epc = "before" THEN <<req>> ELSE <<>>) \o requests

WasDispatched(id) == \E k \in 1..Len(dispatched) : dispatched[k].id = id

\* C6: within one run requests are dispatched in exactly the order they
\* entered the frontier; a follow-up is dispatched strictly after the
\* request whose response produced it, follow-ups of one response in the
\* order emitted, and after everything that was in the frontier before it.
C6_FrontierFifo ==
    /\ \A i \in 1..Len(dispatched) :
          /\ dispatched[i].id = i
          /\ dispatched[i].parent = 0
                \/ \E k \in 1..(i - 1) : dispatched[k].id = dispatched[i].parent
    /\ \A j \in 1..Len(Pending) :
          /\ Pending[j].id = Len(dispatched) + j
          /\ Pending[j].parent = 0 \/ WasDispatched(Pending[j].parent)

\* two seeds; the first one's response emitted a follow-up, which was
\* dispatched third, after the second seed
C6_Witness ==
    /\ n_seeds = 2
    /\ Len(dispatched) = 3
    /\ dispatched[2].parent = 0
    /\ dispatched[3].parent = 1

RECURSIVE ConcatItems(_)
ConcatItems(log) ==
    IF log = <<>> THEN <<>> ELSE Head(log).items \o ConcatItems(Tail(log))

RECURSIVE SumFollowUps(_)
SumFollowUps(log) ==
    IF log = <<>> THEN 0 ELSE Head(log).follow_ups + SumFollowUps(Tail(log))

\* the frontier loop has ended and crawl_spider is about to hand over
Drained == epc = "loop" /\ requests = <<>>

DispatchedOnce ==
    /\ Len(dispatched) = n_seeds + SumFollowUps(parse_log)
    /\ Cardinality({dispatched[i].id : i \in 1..Len(dispatched)}) = Len(dispatched)
    /\ Len(parse_log) = Len(dispatched)
    /\ all_items = ConcatItems(parse_log)

\* leaving the drained loop hands exactly all_items to process_items
HandsOverAllItems ==
    (Drained /\ epc' # "loop") =>
        IF all_items # <<>>
        THEN /\ epc' = "pipeline"
             /\ all_items' = all_items
             /\ len_items'["p1"] = Len(all_items)
             /\ idx'["p1"] = 1
             /\ ppc'["p1"] = "select"
        ELSE epc' = "done" /\ returned' = 0 /\ ppc'["p1"] = "idle"

\* C7: in a run where every dispatch returns a response, each seed and each
\* emitted follow-up is dispatched exactly once (dispatches = seeds +
\* follow-ups), and the batch handed to the pipeline is the concatenation,
\* in processing order, of the items every parse call returned.
C7_DrainedRun ==
    [](Drained /\ nulls = 0 => DispatchedOnce) /\ [][HandsOverAllItems]_vars

\* one seed that parsed into 2 items and 1 follow-up, which parsed into 1
\* item: 2 dispatches, 3 items for the pipeline
C7_Witness ==
    /\ Drained
    /\ nulls = 0
    /\ n_seeds = 1
    /\ Len(dispatched) = 2
    /\ Len(parse_log) = 2
    /\ Len(parse_log[1].items) = 2 /\ parse_log[1].follow_ups = 1
    /\ Len(parse_log[2].items) = 1 /\ parse_log[2].follow_ups = 0
    /\ Len(all_items) = 3

\* the frontier is non-empty or a request is being processed
InLoop == epc \in {"before", "inflight", "after"} \/ (epc = "loop" /\ requests # <<>>)

\* C8: no item of a run is persisted while the run's frontier is non-empty
\* or a request is in flight: process_items is invoked at most once per
\* crawl_spider call, only after the loop has ended, with all the items
\* accumulated during the run.
C8_BatchHandoff ==
    /\ handoffs <= 1
    /\ (epc = "init" \/ InLoop) =>
          (handoffs = 0 /\ ppc["p1"] = "idle" /\ contents = {} /\ blobs = {})
    /\ handoffs = 1 =>
          /\ requests = <<>>
          /\ epc \in {"pipeline", "done"}
          /\ len_items["p1"] = Len(all_items)
    /\ (contents # {} \/ blobs # {} \/ ppc["p1"] # "idle") => handoffs = 1

\* a run that returned after its one handoff persisted items
C8_Witness ==
    /\ epc = "done"
    /\ handoffs = 1
    /\ Len(all_items) = 3
    /\ returned >= 1
    /\ contents # {}


(***************************************************************************)
(* Claims on the fetcher's failure branches.                               *)
(***************************************************************************)
\* C19: when an attempt receives an HTTP error status other than 429 or
\* 500, fetch returns null at once: no further attempt and no backoff sleep
\* follow it, however many attempts remain (the sleeps of the call are
\* those of the attempts before it).
C19_NonRetryable ==
    (InCall /\ "other" \in seen) =>
        /\ fpc = "done"
        /\ fresult = "null"
        /\ attempt = exchanges - 1
        /\ Len(sleeps) = exchanges - 1

\* max_retries = 3: a 429, one sleep, then a 404 on the second attempt ends
\* the call with an attempt to spare
C19_Witness ==
    /\ max_retries = 3
    /\ seen = {"429", "other"}
    /\ exchanges = 2
    /\ sleeps = <<1>>
    /\ fpc = "done"
    /\ fresult = "null"

\* every attempt so far of the current call failed at the transport level
OnlyTransport == seen = {"transport"}

\* C20: a transport-level failure of attempt k (0-based) is followed by a
\* sleep of 2^k seconds and a retry when k < max_retries - 1, and by null
\* without a sleep when k = max_retries - 1: N consecutive transport
\* failures cost N attempts and N - 1 sleeps.
C20_TransportBackoff ==
    (InCall /\ OnlyTransport) =>
        /\ exchanges <= max_retries
        /\ sleeps = PowersOfTwo(Len(sleeps))
        /\ fpc = "sleeping" => (Len(sleeps) = exchanges /\ exchanges < max_retries)
        /\ fpc = "attempt" => Len(sleeps) = exchanges
        /\ fpc = "done" =>
              /\ exchanges = max_retries
              /\ Len(sleeps) = max_retries - 1
              /\ fresult = "null"

\* max_retries = 3 against a host that refuses every connection
C20_Witness ==
    /\ max_retries = 3
    /\ fpc = "done"
    /\ OnlyTransport
    /\ exchanges = 3
    /\ sleeps = <<1, 2>>
    /\ fresult = "null"

(***************************************************************************)
(* Claims on the run as a whole.                                           *)
(***************************************************************************)
\* the run ended with an exception while a response was being parsed
RaisedAtParse == Len(dispatched) = Len(parse_log) + nulls + 1

\* what the absorbed outcomes leave behind: a run that raised did so in a
\* parse call; a run that returned gives a count of the items it handed over
AbsorbedOutcomes ==
    /\ epc = "raised" => RaisedAtParse
    /\ epc = "done" => returned \in 0..Len(all_items)
    /\ (epc = "done" /\ handoffs = 1) => returned = tally["p1"]["stored"]
    /\ (epc = "pipeline" /\ ppc["p1"] = "done") => Processed("p1") = Len(all_items)

\* a dispatch that returned None sends the run back to the loop; an item
\* that is skipped or fails leaves the run in process_items
NullsAndItemFailuresGoOn ==
    /\ nulls' = nulls + 1 => epc' = "loop"
    /\ (epc = "pipeline" /\ Processed("p1")' = Processed("p1") + 1) => epc' = "pipeline"

C12_UnknownAdapterFails ==
    (spc # "idle" /\ config.spider # "rss") =>
        /\ spc = "raised"
        /\ site_error = "ValueError"
        /\ spider = "none"
        /\ ~engine_made
        /\ epc = "init"
        /\ next_id = 1
        /\ requests = <<>>
        /\ dispatched = <<>>
        /\ handoffs = 0
        /\ submitted = 0
        /\ contents = {}
        /\ blobs = {}

\* crawl_site was called with spider: html and raised
C12_Witness ==
    /\ spc = "raised"
    /\ config.spider = "html"
    /\ config.has_urls
    /\ site_error = "ValueError"

\* C16: crawl_site returns to its caller the item count of the run, the
\* success count crawl_spider produced.
C16_ReturnsItemCount == spc = "returned" => site_value = PyInt(returned)

\* C18: the adapter's closed(reason) hook is invoked once per crawl run,
\* after the frontier has drained.
C18_ClosedOncePerRun == spc = "returned" => closed_calls = 1

(***************************************************************************)
(* Claims on the time a fetch call takes.                                  *)
(***************************************************************************)
\* C15: a single fetch call never keeps its caller waiting for more than
\* timeout * max_retries seconds in total, the exchanges (each within the
\* timeout) and the backoff sleeps counted together.
C15_SuspensionBound == InCall => suspended <= timeout * max_retries

(***************************************************************************)
(* Claims on the anti-bot middleware.                                      *)
(***************************************************************************)
\* C13: for one middleware with qps and delay configured, any two
\* consecutive before_request calls return at least max(delay, 1/qps)
\* seconds apart, the first calls after construction included.
C13_MinGap ==
    (bot_qps # 0 /\ calls >= 2) =>
        /\ gap >= bot_delay
        /\ gap * bot_qps >= Token

\* C14: with qps = 2, no delay and no jitter, 10 sequential before_request
\* calls on one middleware take at least 4.5 seconds.
C14_TenCalls ==
    (bot_qps = 4 /\ bot_delay = 0 /\ ~bot_jitter /\ calls = 10) =>
        2 * last_done >= 9 * TicksPerSec

(***************************************************************************)
(* Claims on the feed adapter.                                             *)
(***************************************************************************)
\* the positions up to k of the entries whose extraction does not raise,
\* in feed order
RECURSIVE WellFormed(_)
WellFormed(k) ==
    IF k = 0 THEN <<>>
    ELSE IF Entries[k] # "malformed"
         THEN Append(WellFormed(k - 1), k)
         ELSE WellFormed(k - 1)

\* C17 (as amended): parsing a feed of which n entries are within the
\* max_items cap (all of them without a cap) and m of these raise during
\* extraction returns exactly the n - m items of the well-formed ones, in
\* feed order, and raises nothing; a malformed entry never prevents the
\* entries after it from being extracted.
C17_EntryResilience ==
    /\ rpc \in {"idle", "entry", "returned", "returned_full"}
    /\ rpc = "entry" => (entry <= Len(Entries) /\ items = WellFormed(entry - 1))
    /\ rpc = "returned" =>
          /\ items = WellFormed(Len(Entries))
          /\ Len(items) = Len(Entries) - Len(entry_errors)

\* a feed of 5 entries whose second entry is malformed gave the 4 others
C17_Witness ==
    /\ rpc = "returned"
    /\ max_items = 0
    /\ Len(feed_entries) = 5
    /\ entry_errors = <<2>>
    /\ items = <<1, 3, 4, 5>>

\* C17 (as stated): parsing a feed of n entries of which m raise during
\* extraction returns exactly n - m items.
C17_AllFeedEntries ==
    rpc = "returned" => Len(items) = Len(feed_entries) - Len(entry_errors)

(***************************************************************************)
(* Claims on the outcome of a fetch call.                                  *)
(***************************************************************************)
\* C21: whatever the outcomes of its attempts (2xx, 429, 500, another HTTP
\* error, a transport exception), a fetch call issues at most max_retries
\* exchanges; it returns a Response exactly when an attempt received a 2xx,
\* which no attempt after a non-retryable HTTP error or beyond the budget
\* can do, and null in every other case.
C21_FetchOutcome ==
    InCall =>
        /\ exchanges <= max_retries
        /\ attempt < max_retries \/ fpc = "done"
        /\ "2xx" \in seen => (fpc = "done" /\ "other" \notin seen)
        /\ fpc = "done" => fresult = (IF "2xx" \in seen THEN "response" ELSE "null")
        /\ fpc # "done" => fresult = "none"

\* max_retries = 3: a 429 and a transport failure, then a 2xx on the last
\* attempt of the budget
C21_Witness ==
    /\ max_retries = 3
    /\ seen = {"429", "transport", "2xx"}
    /\ exchanges = 3
    /\ sleeps = <<1, 2>>
    /\ fpc = "done"
    /\ fresult = "response"

(***************************************************************************)
(* Claims on the engine's handling of one request.                         *)
(***************************************************************************)
\* C22: each request popped from the frontier is handed to exactly one
\* executor: the renderer if and only if the request has use_render set and
\* the engine's renderer is the Playwright one, the fetcher otherwise; with
\* the default no-op renderer every request goes to the fetcher.
C22_OneExecutor ==
    /\ epc = "inflight" =>
          /\ executor \in {"fetcher", "renderer"}
          /\ executor = "renderer" <=> (req.use_render /\ renderer = "playwright")
          /\ renderer = "noop" => executor = "fetcher"
          /\ dispatched[Len(dispatched)].id = req.id
    /\ epc \in {"init", "loop", "before", "after", "raised"} => executor = "none"
    /\ \A i, j \in 1..Len(dispatched) : dispatched[i].id = dispatched[j].id => i = j

\* a use_render request on an engine with the Playwright renderer is with
\* the renderer, after an earlier request of the run
C22_Witness ==
    /\ epc = "inflight"
    /\ renderer = "playwright"
    /\ req.use_render
    /\ executor = "renderer"
    /\ Len(dispatched) = 2

\* a dispatch that returned None: the run is back at the head of the loop
\* with its items, its frontier and its parse calls as they were
NullLeavesRunAsIs ==
    nulls' = nulls + 1 =>
        /\ epc = "inflight" /\ epc' = "loop"
        /\ all_items' = all_items
        /\ requests' = requests
        /\ parse_log' = parse_log
        /\ next_id' = next_id
        /\ dispatched' = dispatched

\* the frontier holds no request that was dispatched before, and none twice
NoReinsertion ==
    /\ \A j \in 1..Len(requests) : ~WasDispatched(requests[j].id)
    /\ \A i, j \in 1..Len(requests) : requests[i].id = requests[j].id => i = j
    /\ epc \in {"before", "inflight", "after"} =>
          \A j \in 1..Len(requests) : requests[j].id # req.id

\* C23: when a dispatch returns null the engine performs no parse, no
\* after_request and no re-enqueue for the request: the accumulated items
\* and the rest of the frontier are unchanged and the loop proceeds with
\* the next request.  No request removed from the frontier is ever
\* reinserted by the engine.
C23_NullIsDropped == [](NoReinsertion) /\ [][NullLeavesRunAsIs]_vars

\* two seeds: the first parsed into an item, the second came back null
\* while a follow-up waits in the frontier
C23_Witness ==
    /\ epc = "loop"
    /\ n_seeds = 2
    /\ Len(dispatched) = 2
    /\ nulls = 1
    /\ Len(parse_log) = 1
    /\ all_items # <<>>
    /\ requests # <<>>

\* the response of the request in flight has not been handed to parse
NotYetParsed == Len(parse_log) + nulls + 1 = Len(dispatched)

\* a parse call of a throttled run starts where after_request returned
ParsedAfterAfterRequest ==
    (anti_bot /\ Len(parse_log') = Len(parse_log) + 1) => epc = "after"

\* C24: for every request that yields a response, the engine invokes the
\* middleware's after_request for it before it routes the response to the
\* adapter's parse / parse_full_content.
C24_AfterRequestFirst ==
    [](epc = "after" => NotYetParsed) /\ [][ParsedAfterAfterRequest]_vars

(***************************************************************************)
(* Claims on the feed adapter's follow-up requests.                        *)
(***************************************************************************)
\* the follow-ups due for the entries up to k: those of the entries with a
\* link and a body under 500 characters, in feed order
RECURSIVE DueFollowUps(_)
DueFollowUps(k) ==
    IF k = 0 THEN <<>>
    ELSE IF fetch_full_content /\ Entries[k] = "short"
         THEN Append(DueFollowUps(k - 1), FollowUp(k))
         ELSE DueFollowUps(k - 1)

\* the entries a parse call has gone through
Extracted == IF rpc = "entry" THEN entry - 1 ELSE Len(Entries)

\* C25 (as amended): parsing a feed response, the feed adapter emits a
\* follow-up for an entry within the max_items cap if and only if
\* full-content fetching is enabled, the entry has a link and its cleaned
\* body is shorter than 500 characters; the follow-up targets the entry's
\* url, is tagged so that the engine routes its response to
\* parse_full_content and carries the item's url.  With full-content
\* fetching disabled no follow-up is emitted.
C25_FollowUpsForShortLinked ==
    /\ rpc \in {"entry", "returned"} => new_reqs = DueFollowUps(Extracted)
    /\ \A i \in 1..Len(new_reqs) :
          /\ RouteOf(new_reqs[i]) = "parse_full_content"
          /\ new_reqs[i].original_item_url = new_reqs[i].url
          /\ \E j \in 1..Len(items) : items[j] = new_reqs[i].url
    /\ ~fetch_full_content => new_reqs = <<>>

\* full-content fetching on: of a short entry, a long one and a short one
\* without a link only the first got a follow-up
C25_Witness ==
    /\ rpc = "returned"
    /\ fetch_full_content
    /\ feed_entries = <<"short", "long", "nolink">>
    /\ items = <<1, 2, 3>>
    /\ new_reqs = <<FollowUp(1)>>

\* C25 (as stated): a follow-up is emitted for an entry if and only if
\* full-content fetching is enabled and the entry's cleaned body is shorter
\* than 500 characters.
C25_FollowUpsForShort ==
    rpc = "returned" =>
        \A k \in 1..Len(Entries) :
            (fetch_full_content /\ Entries[k] \in {"short", "nolink"})
                <=> \E i \in 1..Len(new_reqs) : new_reqs[i].url = k

(***************************************************************************)
(* Claims on the run of a feed adapter.                                    *)
(***************************************************************************)
\* the requests of the run so far: dispatched, in hand or in the frontier
Created == Len(dispatched) + Len(Pending)

\* while the loop runs, no more requests than the seed and one per entry
\* within the cap; the page of a follow-up adds none
FeedRunBound ==
    (epc \in {"loop", "before", "inflight", "after"}) =>
        /\ Created <= 1 + Len(Entries)
        /\ Len(Entries) <= (IF max_items # 0 THEN Min(max_items, Len(feed_entries))
                            ELSE Len(feed_entries))
        /\ \A i \in 1..Len(parse_log) : i > 1 => parse_log[i].follow_ups = 0
        /\ \A i \in 1..Len(parse_log) : parse_log[i].follow_ups <= Len(Entries)

\* C26: every crawl run of the feed adapter terminates: a response routed
\* to parse_full_content emits no follow-up and the feed's response at most
\* one per entry, so the run dispatches at most 1 + (number of feed entries,
\* capped by max_items when set) requests, and the frontier empties and the
\* run ends, provided every fetch call returns.
C26_FeedRunTerminates ==
    [](FeedRunBound) /\ <>(spc \in {"returned", "raised"} /\ requests = <<>>)

\* a feed of two short entries with full-content fetching: the seed and two
\* follow-ups were dispatched and the frontier is empty
C26_Witness ==
    /\ fetch_full_content
    /\ Len(Entries) = 2
    /\ Len(dispatched) = 3
    /\ Len(parse_log) = 3
    /\ epc = "loop"
    /\ requests = <<>>

(***************************************************************************)
(* Claims on the robots cache.                                             *)
(***************************************************************************)
\* a domain's robots.txt was read at most once, and exactly the domains
\* read have an entry; none is read with enforcement off
LoadedOncePerDomain ==
    \A d \in Domains :
        /\ robots_loads[d] <= 1
        /\ robots_loads[d] = 1 <=> robot_parsers[d].cached
        /\ load_failed[d] => robot_parsers[d] = UnreadParser
        /\ ~respect_rebots => (robots_loads[d] = 0 /\ robot_parsers[d] = NotCached)

\* an entry of the cache stays what it is
CacheKept ==
    \A d \in Domains :
        robot_parsers[d].cached =>
            /\ robot_parsers'[d] = robot_parsers[d]
            /\ robots_loads'[d] = robots_loads[d]
            /\ load_failed'[d] = load_failed[d]

\* C27: for any sequence of fetch calls on one fetcher, robots.txt is
\* loaded at most once per domain, whether the load succeeded or failed;
\* the cache only grows and an entry once cached is never replaced or
\* removed; with robots enforcement disabled no robots.txt is ever loaded.
C27_RobotsLoadedOnce == [](LoadedOncePerDomain) /\ [][CacheKept]_vars

\* the load for d1 failed, the one for d2 succeeded, and a call for d2
\* found d1's entry and its own in the cache: one load each
C27_Witness ==
    /\ respect_rebots
    /\ load_failed["d1"] /\ robots_loads["d1"] = 1
    /\ robot_parsers["d2"].read /\ robots_loads["d2"] = 1
    /\ freq.domain = "d2"
    /\ exchanges = 2
    /\ fpc = "done"

(***************************************************************************)
(* Claims on the two stores.                                               *)
(***************************************************************************)
\* the existence check of process_item finds a row with the item's url:
\* the call ends there, with both stores, the session and the supply of
\* identifiers as they were
FoundLeavesStores ==
    \A p \in Pipelines : \A u \in UrlSpace :
        (SelectExisting(p, u) /\ Recorded(u)) =>
            /\ contents' = contents
            /\ blobs' = blobs
            /\ Uuid4' = Uuid4
            /\ session'[p] = NoContent
            /\ pcommits' = pcommits
            /\ ppc'[p] \in {"select", "done"}
            /\ item'[p] = NoItem
            /\ tally'[p]["skip"] = tally[p]["skip"] + 1

\* C28: when process_item finds an existing metadata record with the
\* item's url, it leaves both stores unchanged: no content identifier is
\* generated, no blob is uploaded and no record is inserted or modified.
C28_SkipLeavesStores == [][FoundLeavesStores]_vars

\* one call on two items of the same url: the first was stored, the second
\* skipped, and the stores hold one row and one blob
C28_Witness ==
    /\ ppc["p1"] = "done" /\ ppc["p2"] = "idle"
    /\ len_items["p1"] = 2
    /\ tally["p1"]["stored"] = 1
    /\ tally["p1"]["skip"] = 1
    /\ Cardinality(contents) = 1
    /\ Cardinality(blobs) = 1

\* the path upload_content gives the blob of a record
PathOf(r) ==
    IF r.source # "" THEN <<r.source, r.content_uuid, "txt">>
    ELSE <<"content", r.content_uuid, "txt">>

\* a row, committed or waiting in a session for its commit, has its blob in
\* the blob store
BlobBeforeRow ==
    /\ \A r \in contents : r.body_ref \in blobs
    /\ \A p \in Pipelines : session[p] # NoContent => session[p].body_ref \in blobs
    /\ \A p \in Pipelines : ppc[p] = "commit" => session[p] # NoContent

\* C29 (as amended): the blob upload of a new item completes before its
\* metadata insert is attempted, so in every reachable state each committed
\* record references a blob path that exists in the blob store,
\* '{source}/{identifier}.txt' or, for an empty source,
\* 'content/{identifier}.txt', and its content identifier differs from
\* that of every other record.
C29_BlobBeforeRecord ==
    /\ BlobBeforeRow
    /\ \A r \in contents : r.body_ref = PathOf(r)
    /\ \A r1, r2 \in contents : r1.content_uuid = r2.content_uuid => r1 = r2

\* each site stored an item: two rows, each with its blob, one under the
\* source's name and one under content/
C29_Witness ==
    /\ Cardinality(contents) = 2
    /\ \E r \in contents : r.source = "feedA" /\ r.body_ref[1] = "feedA" /\ r.body_ref \in blobs
    /\ \E r \in contents : r.source = "" /\ r.body_ref[1] = "content" /\ r.body_ref \in blobs

\* C29 (as stated): each committed record references the blob path
\* '{source}/{identifier}.txt', which exists in the blob store, and its
\* content identifier is distinct from that of every other record.
C29_SourcePath ==
    /\ \A r \in contents :
          r.body_ref = <<r.source, r.content_uuid, "txt">> /\ r.body_ref \in blobs
    /\ \A r1, r2 \in contents : r1.content_uuid = r2.content_uuid => r1 = r2

\* blobs no committed row references
Orphans == {b \in blobs : \A r \in contents : r.body_ref # b}

\* the insert of the row in p's session fails: rejected by a unique index
\* or for another reason
InsertFails(p) ==
    /\ ppc[p] = "commit"
    /\ \/ tally'[p]["rejected"] = tally[p]["rejected"] + 1
       \/ tally'[p]["store_failed"] = tally[p]["store_failed"] + 1

\* a failed insert: the session is rolled back, nothing is counted, the
\* rows are as they were and the blob uploaded for the row stays, orphaned
FailedInsertLeavesBlob ==
    \A p \in Pipelines :
        InsertFails(p) =>
            /\ session'[p] = NoContent
            /\ success_count'[p] = success_count[p]
            /\ ok_count' = ok_count
            /\ contents' = contents
            /\ blobs' = blobs
            /\ session[p].body_ref \in Orphans'

\* C30: when the metadata insert fails after the blob upload succeeded
\* (e.g. a uniqueness violation lost to a concurrent writer), process_item
\* rolls back the metadata transaction and returns False but performs no
\* compensating delete: the metadata store is unchanged by the call while
\* the uploaded blob remains in the blob store with no record referencing
\* it.
C30_OrphanBlob == [][FailedInsertLeavesBlob /\ blobs \subseteq blobs']_vars

\* both pipelines uploaded a blob for one url; the insert of the second was
\* rejected and its blob is left without a row
C30_Witness ==
    /\ \E p \in Pipelines : tally[p]["rejected"] = 1 /\ ppc[p] = "done"
    /\ Cardinality(contents) = 1
    /\ Cardinality(blobs) = 2
    /\ Cardinality(Orphans) = 1

(***************************************************************************)
(* Claims on the items of a full-content run.                              *)
(***************************************************************************)
\* the batch: the feed's items first, then the items of the pages fetched
\* for them; each page item has the url of a feed item before it
PageItemsRepeatFeedItems ==
    (epc \in {"loop", "before", "inflight", "after", "pipeline", "done"}
        /\ Len(all_items) > Len(items)) =>
            /\ SubSeq(all_items, 1, Len(items)) = items
            /\ \A j \in (Len(items) + 1)..Len(all_items) :
                  \E i \in 1..Len(items) :
                      /\ all_items[i] = all_items[j]
                      /\ \E k \in 1..Len(new_reqs) : new_reqs[k].url = all_items[j]

\* the pipeline is at a page item whose url is recorded: the item is not
\* taken any further, nothing is stored for it
PageItemSkipped ==
    (/\ epc = "pipeline"
     /\ ppc["p1"] = "select"
     /\ idx["p1"] > Len(items)
     /\ Recorded(all_items[idx["p1"]])
     /\ idx'["p1"] # idx["p1"] \/ ppc'["p1"] # "select") =>
        /\ idx'["p1"] = idx["p1"] + 1
        /\ success_count'["p1"] = success_count["p1"]
        /\ contents' = contents
        /\ blobs' = blobs

\* C31: in a run where a feed entry triggers a full-content follow-up, the
\* feed's item and the page's item carry the same url and the feed's item
\* comes first in the batch; hence at most one of the two is persisted, and
\* whenever the feed's item is persisted the page's item is skipped as a
\* duplicate.
C31_FullContentShadowed ==
    /\ [](PageItemsRepeatFeedItems /\ UrlUnique /\ \A u \in UrlSpace : ok_count[u] <= 1)
    /\ [][PageItemSkipped]_vars

\* one short entry with full-content fetching: the feed's item was stored,
\* the page's item skipped, and the run returned 1
C31_Witness ==
    /\ epc = "done"
    /\ fetch_full_content
    /\ items = <<1>>
    /\ all_items = <<1, 1>>
    /\ tally["p1"]["stored"] = 1
    /\ tally["p1"]["skip"] = 1
    /\ returned = 1

(***************************************************************************)
(* Claims on the frontier and the urls.                                    *)
(***************************************************************************)
\* every response so far gave at least one new request
EveryResponseReEmits ==
    /\ n_seeds >= 1
    /\ nulls = 0
    /\ \A i \in 1..Len(parse_log) : parse_log[i].follow_ups >= 1

\* C32: the frontier performs no url deduplication: every follow-up
\* appended is dispatched, so an adapter that emits a follow-up for a url
\* already fetched in the run has it fetched again, and while an adapter
\* re-emits a follow-up on every response the run does not reach the
\* drained state.
C32_NoUrlDedup ==
    /\ Drained =>
          /\ Len(dispatched) = Len(url_of)
          /\ Len(dispatched) = n_seeds + SumFollowUps(parse_log)
          /\ \A i \in 1..Len(dispatched) : dispatched[i].id = i
    /\ (epc = "loop" /\ EveryResponseReEmits) => ~Drained

\* the response for a url asked for the same url again, and it was
\* dispatched a second time
C32_Witness ==
    /\ Drained
    /\ Len(dispatched) = 2
    /\ dispatched[2].parent = 1
    /\ url_of[1] = url_of[2]


\* C33: a call whose config has neither qps nor delay never awaits
\* before_request and never sleeps in after_request, whatever calls the
\* engine had before.
C33_UnthrottledRunNeverWaits ==
    (run_no >= 1 /\ ~run_throttled) => epc \notin {"before", "after"}


(***************************************************************************)
(* Claims on the renderer.                                                 *)
(***************************************************************************)
\* C34: render never propagates a failure to the engine: whatever fails,
\* the call ends with None or a Response.
C34_RenderNeverRaises ==
    render_pc # "raised" /\ epc # "raised"

\* C38: with robots enforcement on, no url that robots.txt disallows is
\* accessed over the network, by the fetcher or by the renderer.
C38_NoAccessToDisallowed ==
    \A h \in net_hits : ~h[2]


(***************************************************************************)
(* Claims on crawl_site and the engine's shutdown.                         *)
(***************************************************************************)
\* C35: a crawl_site call that constructed an engine has awaited
\* engine.close() by the time it ends, by returning or by raising.
C35_EngineClosedAtEnd ==
    (spc \in {"returned", "raised"} /\ engine_made) => engine_closed


(***************************************************************************)
(* Claims on the requests of the feed adapter.                             *)
(***************************************************************************)
\* C36: a request built with method="GET" as a plain string, allowed by
\* robots and met by no failing exchange, is fetched as one GET: one
\* exchange, no backoff sleep, a Response.
C36_PlainGetIsOneExchange ==
    (/\ fpc = "done"
     /\ freq # NoRequest
     /\ ~freq.method_enum
     /\ ~blocked
     /\ max_retries >= 1
     /\ seen \cap {"429", "500", "other", "transport"} = {})
        => (exchanges = 1 /\ sleeps = <<>> /\ fresult = "response")


(***************************************************************************)
(* Claims on runs that end inside the loop.                                *)
(***************************************************************************)
\* C37: a run that ended inside its loop, cancelled or by an exception,
\* handed nothing to the pipeline: no row and no blob was written,
\* whatever number of items it had accumulated.
C37_AbortedRunPersistsNothing ==
    (epc \in {"raised", "cancelled"}) =>
        /\ contents = {}
        /\ blobs = {}
        /\ handoffs = 0
        /\ submitted = 0

\* a run cancelled with two items accumulated and requests still waiting
C37_Witness ==
    /\ epc = "cancelled"
    /\ Len(all_items) >= 2
    /\ requests # <<>>
    /\ contents = {}
    /\ blobs = {}


(***************************************************************************)
(* Claims on the throttle and the accepted qps values.                     *)
(***************************************************************************)
\* C39: for every qps the configuration accepts (0.1 to 10, here 0.5, 1
\* and 2), before_request does not raise.
C39_AcceptedQpsNeverRaises ==
    (bot_qps \in {1, 2, 4}) => bpc # "raised"


(***************************************************************************)
(* Claims on concurrent crawl_site calls.                                  *)
(***************************************************************************)
\* no object a call holds for itself is held by another call; the storage
\* service is the same object for all
OnlyStorageShared ==
    \A r, s \in Pipelines :
       (r # s /\ run[r].pc # "idle" /\ run[s].pc # "idle") =>
          /\ Own(r) \cap Own(s) = {}
          /\ run[r].storage = run[s].storage
          /\ run[r].storage \notin Own(r) \cup Own(s)

\* a step changes the frontier, the item list, the robots cache and the
\* limiter of one call at most
OneCallPerStep ==
    \A r, s \in Pipelines :
       (r # s /\ Components(r)' # Components(r)) => Components(s)' = Components(s)

\* C40: concurrent crawl_site calls share no mutable crawl state: each has
\* its own frontier, item list, fetcher with its robots cache and limiter,
\* a step of one call leaves those of the others unchanged, and what they
\* all can modify is the metadata store and the blob store behind the one
\* storage service.
C40_RunsShareOnlyStores ==
    [](OnlyStorageShared) /\ [][OneCallPerStep]_vars

\* both calls are over, each stored an item, and their robots caches and
\* item lists differ
C40_Witness ==
    /\ \A r \in Pipelines : run[r].pc = "done"
    /\ \A r \in Pipelines : \E c \in contents : c.source = SourceOf(r)
    /\ heap[run["p1"].fetcher].robot_parsers # heap[run["p2"].fetcher].robot_parsers
    /\ heap[run["p1"].frame].all_items # heap[run["p2"].frame].all_items
    /\ run["p1"].limiter # 0
    /\ run["p2"].limiter = 0

=============================================================================
